---- MODULE Spec2Model ----
(***************************************************************************)
(* Field-extraction and coordinate-reconciliation pipeline of              *)
(* pdf_extractor: PDFExtractor.process_pdf (core/extractor.py),            *)
(* GPTService.analyze_document (services/gpt_service.py) and the           *)
(* coordinate-marker encoder / decoder.                                    *)
(*                                                                         *)
(* Python strings are sequences of one-character strings.  Optional        *)
(* values are records: NoneV, or Some(x).  Floats are exact decimals       *)
(* [m, e] standing for m / 10^e, kept canonical (no trailing zero          *)
(* fraction digit), so that record equality is numeric equality.           *)
(***************************************************************************)
EXTENDS Integers, Sequences, FiniteSets, TLC

(***************************************************************************)
(* Bounds of the model.                                                    *)
(***************************************************************************)
\* longest LLM field list drawn for one response
MaxGptFields == 2

(***************************************************************************)
(* Optional values.                                                        *)
(***************************************************************************)
NoneV == [some |-> FALSE]
Some(x) == [some |-> TRUE, v |-> x]
IsNone(o) == ~o.some

(***************************************************************************)
(* Strings.                                                                *)
(***************************************************************************)
DigitChars == <<"0", "1", "2", "3", "4", "5", "6", "7", "8", "9">>
UpperChars == <<"A", "B", "C", "D", "E", "F", "G", "H", "I", "J", "K", "L", "M", "N", "O", "P", "Q", "R", "S", "T", "U", "V", "W", "X", "Y", "Z">>
LowerChars == <<"a", "b", "c", "d", "e", "f", "g", "h", "i", "j", "k", "l", "m", "n", "o", "p", "q", "r", "s", "t", "u", "v", "w", "x", "y", "z">>

IndexIn(c, tab) == CHOOSE i \in 1..Len(tab) : tab[i] = c
InTab(c, tab) == \E i \in 1..Len(tab) : tab[i] = c

\* regex class \d
IsDigit(c) == InTab(c, DigitChars)
DigitVal(c) == IndexIn(c, DigitChars) - 1
\* regex class [\d.]
IsCoordChar(c) == IsDigit(c) \/ c = "."
\* regex class [\d.,]
IsCleanChar(c) == IsDigit(c) \/ c = "." \/ c = ","
\* str.strip() whitespace
IsSpace(c) == c = " "

\* s[i:j] of Python with 1-based inclusive bounds; empty when i > j
Slice(s, i, j) == IF i > j THEN <<>> ELSE SubSeq(s, i, j)

\* sub in s
StartsAt(s, i, sub) == i + Len(sub) - 1 <= Len(s) /\ SubSeq(s, i, i + Len(sub) - 1) = sub
Contains(s, sub) == \E i \in 1..(Len(s) + 1) : StartsAt(s, i, sub)

\* str.lower()
LowerChar(c) == IF InTab(c, UpperChars) THEN LowerChars[IndexIn(c, UpperChars)] ELSE c
Lower(s) == [i \in 1..Len(s) |-> LowerChar(s[i])]

\* two characters outside ASCII, named by code point: the dotless i and the
\* ligature fi.  str.lower() leaves both as they are; str.upper() gives
\* "I" for the first and "FI" for the second.
DotlessI == "U+0131"
LigatureFi == "U+FB01"

\* str.upper()
UpperChar(c) ==
  IF InTab(c, LowerChars) THEN <<UpperChars[IndexIn(c, LowerChars)]>>
  ELSE IF c = DotlessI THEN <<"I">>
  ELSE IF c = LigatureFi THEN <<"F", "I">>
  ELSE <<c>>
RECURSIVE Upper(_)
Upper(s) == IF s = <<>> THEN <<>> ELSE UpperChar(Head(s)) \o Upper(Tail(s))

\* str.strip()
RECURSIVE LStrip(_)
LStrip(s) == IF s # <<>> /\ IsSpace(Head(s)) THEN LStrip(Tail(s)) ELSE s
RECURSIVE RStrip(_)
RStrip(s) == IF s # <<>> /\ IsSpace(s[Len(s)]) THEN RStrip(SubSeq(s, 1, Len(s) - 1)) ELSE s
Strip(s) == RStrip(LStrip(s))

\* int(digits)
RECURSIVE IntOfDigits(_)
IntOfDigits(s) == IF s = <<>> THEN 0 ELSE 10 * IntOfDigits(SubSeq(s, 1, Len(s) - 1)) + DigitVal(s[Len(s)])

\* str(n) for n >= 0
RECURSIVE DigitsOfNat(_)
DigitsOfNat(n) == IF n < 10 THEN <<DigitChars[n + 1]>> ELSE DigitsOfNat(n \div 10) \o <<DigitChars[(n % 10) + 1]>>

RECURSIVE Pow10(_)
Pow10(e) == IF e = 0 THEN 1 ELSE 10 * Pow10(e - 1)

(***************************************************************************)
(* Floats as exact decimals.                                               *)
(***************************************************************************)
RECURSIVE Dec(_, _)
Dec(m, e) == IF e > 0 /\ m % 10 = 0 THEN Dec(m \div 10, e - 1) ELSE [m |-> m, e |-> e]

\* positions of "." in a string
DotPositions(s) == {i \in 1..Len(s) : s[i] = "."}

\* float(s) accepts a string of [\d.]+ iff it has one "." at most and a digit
FloatParses(s) == Cardinality(DotPositions(s)) <= 1 /\ \E i \in 1..Len(s) : IsDigit(s[i])

\* float(s) for such a string
FloatOf(s) ==
  IF DotPositions(s) = {} THEN Dec(IntOfDigits(s), 0)
  ELSE LET d == CHOOSE i \in DotPositions(s) : TRUE
           int == Slice(s, 1, d - 1)
           frac == Slice(s, d + 1, Len(s))
       IN Dec(IntOfDigits(int \o frac), Len(frac))

\* round(x, 1) in tenths, the rounding f"{x:.1f}" applies too; the model's
\* decimals tie at half, which is rounded to even
RoundTenths(x) ==
  IF x.e = 0 THEN 10 * x.m
  ELSE LET p == Pow10(x.e - 1)
           a == IF x.m < 0 THEN -x.m ELSE x.m
           q == a \div p
           r == a % p
           up == 2 * r > p \/ (2 * r = p /\ q % 2 = 1)
           t == IF up THEN q + 1 ELSE q
       IN IF x.m < 0 THEN -t ELSE t
Round1(x) == Dec(RoundTenths(x), 1)

\* f"{x:.1f}"
Format1(x) ==
  LET t == RoundTenths(x)
      a == IF t < 0 THEN -t ELSE t
  IN (IF x.m < 0 THEN <<"-">> ELSE <<>>) \o DigitsOfNat(a \div 10) \o <<".">> \o <<DigitChars[(a % 10) + 1]>>

(***************************************************************************)
(* Filename fields.                                                        *)
(***************************************************************************)
FilenameKeywords ==
  { <<"f", "i", "l", "e", "n", "a", "m", "e">>,
    <<"f", "i", "l", "e", "_", "n", "a", "m", "e">>,
    <<"f", "i", "l", "e", " ", "n", "a", "m", "e">>,
    <<"d", "o", "c", "u", "m", "e", "n", "t", "_", "n", "a", "m", "e">>,
    <<"d", "o", "c", "u", "m", "e", "n", "t", " ", "n", "a", "m", "e">> }

\* mutant: the keywords are looked for in the key as written
IsFilenameFieldCaseSensitive(field_key) ==
  \E keyword \in FilenameKeywords : Contains(field_key, keyword)

\* PDFExtractor._is_filename_field
IsFilenameField(field_key) ==
  LET field_key_lower == Lower(field_key)
  IN \E keyword \in FilenameKeywords : Contains(field_key_lower, keyword)

\* pathlib: the final component of a path
PathName(path) ==
  LET slashes == {i \in 1..Len(path) : path[i] = "/"}
  IN IF slashes = {} THEN path
     ELSE Slice(path, (CHOOSE i \in slashes : \A j \in slashes : j <= i) + 1, Len(path))

\* pathlib: Path(path).stem, the name without its last suffix
Stem(path) ==
  LET name == PathName(path)
      dots == {i \in 1..Len(name) : name[i] = "."}
      i == IF dots = {} THEN 0 ELSE CHOOSE d \in dots : \A j \in dots : j <= d
  IN IF 1 < i /\ i < Len(name) THEN SubSeq(name, 1, i - 1) ELSE name

\* a dict as the sequence of its <<key, value>> items in insertion order
DictKeys(d) == {d[i][1] : i \in 1..Len(d)}
DictHas(d, k) == k \in DictKeys(d)
DictGet(d, k) == d[CHOOSE i \in 1..Len(d) : d[i][1] = k][2]
\* d[k] = v
DictSet(d, k, v) ==
  IF DictHas(d, k) THEN [i \in 1..Len(d) |-> IF d[i][1] = k THEN <<k, v>> ELSE d[i]]
  ELSE Append(d, <<k, v>>)

\* PDFExtractor._extract_filename_fields
RECURSIVE ExtractFilenameFieldsFrom(_, _, _)
ExtractFilenameFieldsFrom(fields, filename, filename_fields) ==
  IF fields = <<>> THEN filename_fields
  ELSE ExtractFilenameFieldsFrom(Tail(fields), filename,
         IF IsFilenameField(Head(fields).key)
         THEN DictSet(filename_fields, Head(fields).key, filename)
         ELSE filename_fields)
ExtractFilenameFields(template, input_pdf_path) ==
  ExtractFilenameFieldsFrom(template.fields, Stem(input_pdf_path), <<>>)

\* the list comprehension of _filter_non_filename_fields
KeepNonFilename(field) == ~IsFilenameField(field.key)

\* mutant: the template is passed on unfiltered
FilterKeepsEveryField(template) ==
  [document_type |-> template.document_type, fields |-> template.fields]

\* PDFExtractor._filter_non_filename_fields
FilterNonFilenameFields(template) ==
  [document_type |-> template.document_type,
   fields |-> SelectSeq(template.fields, KeepNonFilename)]

\* the dict comprehension of _filter_metadata_for_non_filename_fields
KeepNonFilenameItem(item) == ~IsFilenameField(item[1])

\* PDFExtractor._filter_metadata_for_non_filename_fields
FilterMetadataForNonFilenameFields(metadata) ==
  IF IsNone(metadata) \/ metadata.v = <<>> THEN NoneV
  ELSE LET filtered_metadata == SelectSeq(metadata.v, KeepNonFilenameItem)
       IN IF filtered_metadata # <<>> THEN Some(filtered_metadata) ELSE NoneV

(***************************************************************************)
(* Coordinate markers.                                                     *)
(***************************************************************************)
\* s[i], or "" past either end
At(s, i) == IF i \in 1..Len(s) THEN s[i] ELSE ""

\* the last index of the longest run of \d starting at i (i - 1: no run)
RECURSIVE DigitRunEnd(_, _)
DigitRunEnd(s, i) == IF i <= Len(s) /\ IsDigit(s[i]) THEN DigitRunEnd(s, i + 1) ELSE i - 1
\* the same for [\d.]
RECURSIVE CoordRunEnd(_, _)
CoordRunEnd(s, i) == IF i <= Len(s) /\ IsCoordChar(s[i]) THEN CoordRunEnd(s, i + 1) ELSE i - 1
\* the same for [\d.,]
RECURSIVE CleanRunEnd(_, _)
CleanRunEnd(s, i) == IF i <= Len(s) /\ IsCleanChar(s[i]) THEN CleanRunEnd(s, i + 1) ELSE i - 1

NoMatch == [ok |-> FALSE]

\* r'<@(\d+):([\d.]+),([\d.]+),([\d.]+),([\d.]+)>' matched at index i.  Each
\* group is followed by a character outside its class, so the greedy run
\* is the only candidate.
CoordPatternAt(s, i) ==
  LET p1 == DigitRunEnd(s, i + 2)
      c1 == CoordRunEnd(s, p1 + 2)
      c2 == CoordRunEnd(s, c1 + 2)
      c3 == CoordRunEnd(s, c2 + 2)
      c4 == CoordRunEnd(s, c3 + 2)
  IN IF /\ At(s, i) = "<" /\ At(s, i + 1) = "@"
        /\ p1 >= i + 2 /\ At(s, p1 + 1) = ":"
        /\ c1 >= p1 + 2 /\ At(s, c1 + 1) = ","
        /\ c2 >= c1 + 2 /\ At(s, c2 + 1) = ","
        /\ c3 >= c2 + 2 /\ At(s, c3 + 1) = ","
        /\ c4 >= c3 + 2 /\ At(s, c4 + 1) = ">"
     THEN [ok |-> TRUE, start |-> i, end |-> c4 + 1,
           g1 |-> SubSeq(s, i + 2, p1),
           g2 |-> SubSeq(s, p1 + 2, c1), g3 |-> SubSeq(s, c1 + 2, c2),
           g4 |-> SubSeq(s, c2 + 2, c3), g5 |-> SubSeq(s, c3 + 2, c4)]
     ELSE NoMatch

\* re.search(coord_pattern, value): the leftmost match
CoordSearch(value) ==
  LET hits == {i \in 1..Len(value) : CoordPatternAt(value, i).ok}
  IN IF hits = {} THEN NoMatch
     ELSE CoordPatternAt(value, CHOOSE i \in hits : \A j \in hits : i <= j)

\* PDFExtractor._parse_coordinate_from_response: [kind |-> "none"], a
\* (page, bbox) pair, or the ValueError float() raises
ParseCoordinateFromResponse(value) ==
  LET match == CoordSearch(value)
  IN IF match.ok
     THEN IF \A g \in {match.g2, match.g3, match.g4, match.g5} : FloatParses(g)
          THEN [kind |-> "coords", page |-> IntOfDigits(match.g1),
                bbox |-> <<FloatOf(match.g2), FloatOf(match.g3), FloatOf(match.g4), FloatOf(match.g5)>>]
          ELSE [kind |-> "raise"]
     ELSE [kind |-> "none"]

\* r'<@\d+:[\d.,]+>' matched at index i: the index of its ">" (0: no match)
CleanPatternEnd(s, i) ==
  LET p1 == DigitRunEnd(s, i + 2)
      c1 == CleanRunEnd(s, p1 + 2)
  IN IF /\ At(s, i) = "<" /\ At(s, i + 1) = "@"
        /\ p1 >= i + 2 /\ At(s, p1 + 1) = ":"
        /\ c1 >= p1 + 2 /\ At(s, c1 + 1) = ">"
     THEN c1 + 1 ELSE 0

\* re.sub(coord_pattern, '', value) from index i on
RECURSIVE RemoveCleanPattern(_, _)
RemoveCleanPattern(s, i) ==
  IF i > Len(s) THEN <<>>
  ELSE IF CleanPatternEnd(s, i) > 0 THEN RemoveCleanPattern(s, CleanPatternEnd(s, i) + 1)
  ELSE <<s[i]>> \o RemoveCleanPattern(s, i + 1)

\* re.sub(r'^\[(.*?)\]$', r'\1', s): the strings of the model hold no newline
StripBrackets(s) ==
  IF Len(s) >= 2 /\ s[1] = "[" /\ s[Len(s)] = "]" THEN SubSeq(s, 2, Len(s) - 1) ELSE s

\* PDFExtractor._clean_value_from_coordinates
CleanValueFromCoordinates(value) ==
  LET cleaned == RemoveCleanPattern(value, 1)
  IN Strip(StripBrackets(Strip(cleaned)))

\* mutant: the marker carries the 1-based page of the banner
CoordMarkerOneBasedPage(pos) ==
  <<"[">> \o pos.text \o <<"]", "<", "@">> \o DigitsOfNat(pos.page + 1) \o <<":">>
    \o Format1(pos.bbox[1]) \o <<",">> \o Format1(pos.bbox[2]) \o <<",">>
    \o Format1(pos.bbox[3]) \o <<",">> \o Format1(pos.bbox[4]) \o <<">">>

\* the f-string of _create_coordinate_embedded_text
CoordMarker(pos) ==
  <<"[">> \o pos.text \o <<"]", "<", "@">> \o DigitsOfNat(pos.page) \o <<":">>
    \o Format1(pos.bbox[1]) \o <<",">> \o Format1(pos.bbox[2]) \o <<",">>
    \o Format1(pos.bbox[3]) \o <<",">> \o Format1(pos.bbox[4]) \o <<">">>

\* " ".join(parts)
RECURSIVE JoinSpace(_)
JoinSpace(parts) ==
  IF parts = <<>> THEN <<>>
  ELSE IF Len(parts) = 1 THEN parts[1]
  ELSE parts[1] \o <<" ">> \o JoinSpace(Tail(parts))

\* pages_text[page]: the markers of the page's non-blank spans, in span order
RECURSIVE PageMarkers(_, _)
PageMarkers(positions, page) ==
  IF positions = <<>> THEN <<>>
  ELSE (IF Head(positions).page = page /\ Strip(Head(positions).text) # <<>>
        THEN <<CoordMarker(Head(positions))>> ELSE <<>>)
       \o PageMarkers(Tail(positions), page)

\* the lines of the pages in pages, in ascending order
RECURSIVE PageLines(_, _)
PageLines(positions, pages) ==
  IF pages = {} THEN <<>>
  ELSE LET page == CHOOSE p \in pages : \A q \in pages : p <= q
       IN << <<"-", "-", "-", " ", "P", "A", "G", "E", " ">> \o DigitsOfNat(page + 1) \o <<" ", "-", "-", "-">>,
             JoinSpace(PageMarkers(positions, page)),
             <<>> >>
          \o PageLines(positions, pages \ {page})

\* PDFExtractor._create_coordinate_embedded_text: the lines that
\* "\n".join(embedded_parts) joins; a text is the sequence of its lines
CreateCoordinateEmbeddedText(text_content, positions) ==
  << <<"=", "=", "=", " ", "D", "O", "C", "U", "M", "E", "N", "T", " ", "W", "I", "T", "H", " ", "C", "O", "O", "R", "D", "I", "N", "A", "T", "E", " ", "M", "A", "R", "K", "E", "R", "S", " ", "=", "=", "=">>,
     <<"F", "o", "r", "m", "a", "t", ":", " ", "[", "t", "e", "x", "t", "]", "<", "@", "p", "a", "g", "e", ":", "x", "1", ",", "y", "1", ",", "x", "2", ",", "y", "2", ">">>,
     <<>> >>
  \o PageLines(positions, {positions[i].page : i \in 1..Len(positions)})
  \o << <<"=", "=", "=", " ", "E", "N", "D", " ", "D", "O", "C", "U", "M", "E", "N", "T", " ", "=", "=", "=">>,
        <<>>,
        <<"=", "=", "=", " ", "O", "R", "I", "G", "I", "N", "A", "L", " ", "T", "E", "X", "T", " ", "(", "f", "o", "r", " ", "r", "e", "f", "e", "r", "e", "n", "c", "e", ")", " ", "=", "=", "=">> >>
  \o text_content

(***************************************************************************)
(* JSON.  A completion is a sequence of tokens [k, v]: the punctuation     *)
(* of JSON, string / number / null literals, and "text" for prose that     *)
(* is no JSON.  String literals of the model hold no brace character.      *)
(***************************************************************************)
Tok(k) == [k |-> k, v |-> <<>>]
TokStr(s) == [k |-> "str", v |-> s]
TokAt(toks, i) == IF i \in 1..Len(toks) THEN toks[i].k ELSE "eof"

\* Python values of json.loads
JNull == [t |-> "null", s |-> <<>>, items |-> <<>>]
JNum == [t |-> "num", s |-> <<>>, items |-> <<>>]
JStr(s) == [t |-> "str", s |-> s, items |-> <<>>]
\* a list of values
JArr(items) == [t |-> "arr", s |-> <<>>, items |-> items]
\* a dict: members [name, val] in insertion order
JObj(members) == [t |-> "obj", s |-> <<>>, items |-> members]
Member(name, val) == [name |-> name, val |-> val]

JHas(obj, name) == \E i \in 1..Len(obj.items) : obj.items[i].name = name
JGet(obj, name) == obj.items[CHOOSE i \in 1..Len(obj.items) : obj.items[i].name = name].val
\* dict[name] = val while parsing: a repeated name keeps its place and takes the last value
JSet(members, name, val) ==
  IF \E i \in 1..Len(members) : members[i].name = name
  THEN [i \in 1..Len(members) |-> IF members[i].name = name THEN Member(name, val) ELSE members[i]]
  ELSE Append(members, Member(name, val))

ParseFail == [ok |-> FALSE, val |-> JNull, next |-> 0]
ParseOk(val, next) == [ok |-> TRUE, val |-> val, next |-> next]

RECURSIVE ParseValue(_, _)
RECURSIVE ParseItems(_, _, _)
RECURSIVE ParseMembers(_, _, _)
\* the JSON value starting at token i
ParseValue(toks, i) ==
  CASE TokAt(toks, i) = "str" -> ParseOk(JStr(toks[i].v), i + 1)
    [] TokAt(toks, i) = "num" -> ParseOk(JNum, i + 1)
    [] TokAt(toks, i) = "null" -> ParseOk(JNull, i + 1)
    [] TokAt(toks, i) = "[" ->
         IF TokAt(toks, i + 1) = "]" THEN ParseOk(JArr(<<>>), i + 2)
         ELSE ParseItems(toks, i + 1, <<>>)
    [] TokAt(toks, i) = "{" ->
         IF TokAt(toks, i + 1) = "}" THEN ParseOk(JObj(<<>>), i + 2)
         ELSE ParseMembers(toks, i + 1, <<>>)
    [] OTHER -> ParseFail
\* value ("," value)* "]"
ParseItems(toks, i, acc) ==
  LET r == ParseValue(toks, i)
  IN IF ~r.ok THEN ParseFail
     ELSE IF TokAt(toks, r.next) = "," THEN ParseItems(toks, r.next + 1, Append(acc, r.val))
     ELSE IF TokAt(toks, r.next) = "]" THEN ParseOk(JArr(Append(acc, r.val)), r.next + 1)
     ELSE ParseFail
\* string ":" value ("," string ":" value)* "}"
ParseMembers(toks, i, acc) ==
  IF TokAt(toks, i) # "str" \/ TokAt(toks, i + 1) # ":" THEN ParseFail
  ELSE LET r == ParseValue(toks, i + 2)
       IN IF ~r.ok THEN ParseFail
          ELSE IF TokAt(toks, r.next) = ","
               THEN ParseMembers(toks, r.next + 1, JSet(acc, toks[i].v, r.val))
          ELSE IF TokAt(toks, r.next) = "}"
               THEN ParseOk(JObj(JSet(acc, toks[i].v, r.val)), r.next + 1)
          ELSE ParseFail

\* json.loads(content): one value and nothing after it, or JSONDecodeError (ok = FALSE)
JsonLoads(content) ==
  LET r == ParseValue(content, 1)
  IN IF r.ok /\ r.next = Len(content) + 1 THEN r ELSE ParseFail

\* json.dumps(value), used to write the completions the model draws
RECURSIVE JsonDumps(_)
RECURSIVE DumpItems(_)
RECURSIVE DumpMembers(_)
JsonDumps(val) ==
  CASE val.t = "str" -> <<TokStr(val.s)>>
    [] val.t = "num" -> <<Tok("num")>>
    [] val.t = "null" -> <<Tok("null")>>
    [] val.t = "arr" -> <<Tok("[")>> \o DumpItems(val.items) \o <<Tok("]")>>
    [] val.t = "obj" -> <<Tok("{")>> \o DumpMembers(val.items) \o <<Tok("}")>>
DumpItems(items) ==
  IF items = <<>> THEN <<>>
  ELSE JsonDumps(Head(items)) \o (IF Len(items) > 1 THEN <<Tok(",")>> ELSE <<>>) \o DumpItems(Tail(items))
DumpMembers(members) ==
  IF members = <<>> THEN <<>>
  ELSE <<TokStr(Head(members).name), Tok(":")>> \o JsonDumps(Head(members).val)
       \o (IF Len(members) > 1 THEN <<Tok(",")>> ELSE <<>>) \o DumpMembers(Tail(members))

\* the index of the "}" that closes the brace open before index i at the
\* given depth (0: none)
RECURSIVE ClosingBrace(_, _, _)
ClosingBrace(toks, i, depth) ==
  IF i > Len(toks) THEN 0
  ELSE IF toks[i].k = "{" THEN ClosingBrace(toks, i + 1, depth + 1)
  ELSE IF toks[i].k = "}" THEN (IF depth = 1 THEN i ELSE ClosingBrace(toks, i + 1, depth - 1))
  ELSE ClosingBrace(toks, i + 1, depth)

\* the span from the first "{" to the "}" that balances it
FirstBalancedSpan(toks) ==
  LET opens == {i \in 1..Len(toks) : toks[i].k = "{"}
      first == CHOOSE i \in opens : \A j \in opens : i <= j
  IN IF opens = {} \/ ClosingBrace(toks, first + 1, 1) = 0 THEN NoneV
     ELSE Some(SubSeq(toks, first, ClosingBrace(toks, first + 1, 1)))

\* mutant: the search stops at the brace that balances the first one
JsonMatchFirstBalanced(content) == FirstBalancedSpan(content)

\* re.search(r'(\{.*\})', content, re.DOTALL): the greedy span from the
\* first "{" to the last "}" after it, or no match
JsonMatch(content) ==
  LET opens == {i \in 1..Len(content) : content[i].k = "{"}
      first == CHOOSE i \in opens : \A j \in opens : i <= j
      closes == {i \in 1..Len(content) : content[i].k = "}" /\ i > first}
      last == CHOOSE i \in closes : \A j \in closes : j <= i
  IN IF opens = {} \/ closes = {} THEN NoneV
     ELSE Some(SubSeq(content, first, last))

(***************************************************************************)
(* GPTService.analyze_document.                                            *)
(***************************************************************************)
StrKey == <<"k", "e", "y">>
StrValue == <<"v", "a", "l", "u", "e">>
StrFields == <<"f", "i", "e", "l", "d", "s">>

\* {"fields": []}
EmptyFieldsResponse == JObj(<<Member(StrFields, JArr(<<>>))>>)

\* mutant: a completion that is no JSON object leaves analyze_document as an error
LoadResponseStrict(content) ==
  LET direct == JsonLoads(content)
  IN IF direct.ok /\ direct.val.t = "obj"
     THEN [kind |-> "ok", error |-> "", data |-> direct.val]
     ELSE [kind |-> "raise", error |-> "JSONDecodeError", data |-> JNull]

\* the try / except of lines 159-180: the response_data, or the error that
\* leaves analyze_document
LoadResponse(content) ==
  LET direct == JsonLoads(content)
  IN IF direct.ok
     THEN \* line 161, inside the try: response_data.get, then len()
          IF direct.val.t # "obj" THEN [kind |-> "raise", error |-> "AttributeError", data |-> JNull]
          ELSE IF JHas(direct.val, StrFields) /\ JGet(direct.val, StrFields).t \in {"num", "null"}
               THEN [kind |-> "raise", error |-> "TypeError", data |-> JNull]
          ELSE [kind |-> "ok", error |-> "", data |-> direct.val]
     ELSE LET json_match == JsonMatch(content)
          IN IF IsNone(json_match) THEN [kind |-> "ok", error |-> "", data |-> EmptyFieldsResponse]
             ELSE LET again == JsonLoads(json_match.v)
                  IN IF again.ok THEN [kind |-> "ok", error |-> "", data |-> again.val]
                     ELSE [kind |-> "ok", error |-> "", data |-> EmptyFieldsResponse]

\* ExtractedFieldGPT(**field) succeeds: a dict whose "key" and "value" are
\* strings (other members are ignored)
FieldValidates(field) ==
  /\ field.t = "obj"
  /\ JHas(field, StrKey) /\ JGet(field, StrKey).t = "str"
  /\ JHas(field, StrValue) /\ JGet(field, StrValue).t = "str"

\* mutant: the first field that raises ends the loop
RECURSIVE ValidateFieldsStopsAtInvalid(_)
ValidateFieldsStopsAtInvalid(items) ==
  IF items = <<>> THEN <<>>
  ELSE IF FieldValidates(Head(items))
       THEN <<[key |-> JGet(Head(items), StrKey).s, value |-> JGet(Head(items), StrValue).s]>>
            \o ValidateFieldsStopsAtInvalid(Tail(items))
       ELSE <<>>

\* the loop of lines 183-195 over a list: a field that raises is skipped
RECURSIVE ValidateFields(_)
ValidateFields(items) ==
  IF items = <<>> THEN <<>>
  ELSE IF FieldValidates(Head(items))
       THEN <<[key |-> JGet(Head(items), StrKey).s, value |-> JGet(Head(items), StrValue).s]>>
            \o ValidateFields(Tail(items))
       ELSE ValidateFields(Tail(items))

\* what `for field in response_data.get('fields', [])` iterates over: the
\* items of a list, the characters of a string, the keys of a dict
IterItems(val) ==
  CASE val.t = "arr" -> val.items
    [] val.t = "str" -> [i \in 1..Len(val.s) |-> JStr(<<val.s[i]>>)]
    [] val.t = "obj" -> [i \in 1..Len(val.items) |-> JStr(val.items[i].name)]

\* lines 156-201 of analyze_document for the completion `content`
ProcessResponse(content, template, text_content) ==
  LET loaded == LoadResponse(content)
      listed == IF JHas(loaded.data, StrFields) THEN JGet(loaded.data, StrFields) ELSE JArr(<<>>)
  IN IF loaded.kind = "raise" THEN [kind |-> "raise", error |-> loaded.error]
     ELSE IF listed.t \in {"num", "null"} THEN [kind |-> "raise", error |-> "TypeError"]
     ELSE [kind |-> "ok",
           document_type |-> template.document_type,
           fields |-> ValidateFields(IterItems(listed)),
           text_content |-> text_content]

\* field_descriptions of lines 44-56
FieldDescription(field_key, alternative_names, extraction_rules) ==
  [key |-> field_key,
   also_known_as |-> IF ~IsNone(alternative_names) /\ alternative_names.v # <<>> /\ DictHas(alternative_names.v, field_key)
                     THEN Some(DictGet(alternative_names.v, field_key)) ELSE NoneV,
   tip |-> IF ~IsNone(extraction_rules) /\ extraction_rules.v # <<>> /\ DictHas(extraction_rules.v, field_key)
           THEN Some(DictGet(extraction_rules.v, field_key)) ELSE NoneV]

Truthy(metadata) == ~IsNone(metadata) /\ metadata.v # <<>>

\* lines 40-148 of analyze_document: the messages sent to the model.  The
\* fixed sentences are left out; the parts that vary are kept.
BuildMessages(text_content, template, alternative_names, extraction_rules, include_coordinates, is_fine_tuned) ==
  LET field_keys == [i \in 1..Len(template.fields) |-> template.fields[i].key]
      field_descriptions == [i \in 1..Len(field_keys) |->
                               FieldDescription(field_keys[i], alternative_names, extraction_rules)]
  IN IF is_fine_tuned
     THEN [strategy |-> "fine_tuned",
           required_fields |-> Some(field_keys),
           field_details |-> IF Truthy(alternative_names) \/ Truthy(extraction_rules)
                             THEN Some(field_descriptions) ELSE NoneV,
           document_type |-> NoneV,
           coordinate_instructions |-> include_coordinates,
           document |-> text_content]
     ELSE [strategy |-> "base",
           required_fields |-> NoneV,
           field_details |-> Some(field_descriptions),
           document_type |-> Some(template.document_type),
           coordinate_instructions |-> include_coordinates,
           document |-> text_content]

(***************************************************************************)
(* The inputs the model draws.                                             *)
(***************************************************************************)
KeyTotal == <<"T", "o", "t", "a", "l">>
KeyDate == <<"D", "a", "t", "e">>
KeyFileName == <<"F", "i", "l", "e", " ", "N", "a", "m", "e">>

FieldTemplate(key) == [key |-> key, value |-> <<>>]

\* schema sources: what build_extraction_schema returns (template,
\* alternative_names, extraction_rules)
DocumentType == <<"F", "i", "n", "a", "n", "c", "i", "a", "l", " ", "S", "t", "a", "t", "e", "m", "e", "n", "t">>
SchemaSources ==
  { [template |-> [document_type |-> DocumentType,
                   fields |-> <<FieldTemplate(KeyTotal), FieldTemplate(KeyFileName), FieldTemplate(KeyDate)>>],
     alternative_names |-> Some(<< <<KeyTotal, <<"S", "u", "m">>>>, <<KeyFileName, <<"D", "o", "c">>>> >>),
     extraction_rules |-> Some(<< <<KeyFileName, <<"r">>>> >>)],
    [template |-> [document_type |-> DocumentType,
                   fields |-> <<FieldTemplate(KeyFileName)>>],
     alternative_names |-> Some(<<>>),
     extraction_rules |-> Some(<<>>)],
    [template |-> [document_type |-> DocumentType,
                   fields |-> <<FieldTemplate(KeyFileName), FieldTemplate(KeyFileName)>>],
     alternative_names |-> Some(<<>>),
     extraction_rules |-> Some(<<>>)],
    [template |-> [document_type |-> DocumentType,
                   fields |-> <<FieldTemplate(KeyDate), FieldTemplate(KeyTotal)>>],
     alternative_names |-> Some(<<>>),
     extraction_rules |-> Some(<< <<KeyDate, <<"i", "s", "o">>>> >>)] }

\* the (input_pdf_path, output_pdf_path) pairs process_pdf is called with
Invocations ==
  { [input_pdf_path |-> <<"d", "/", "i", "n", "v", ".", "1", ".", "p", "d", "f">>,
     output_pdf_path |-> Some(<<"o", "u", "t", ".", "p", "d", "f">>)],
    [input_pdf_path |-> <<"a", ".", "p", "d", "f">>,
     output_pdf_path |-> NoneV] }

\* the document: its text, and the span lists extract_text_and_positions returns
DocText == << <<"T", "o", "t", "a", "l", " ", "4", "2">> >>
Span(page, x0, y0, x1, y1, text) ==
  [page |-> page, bbox |-> <<Dec(x0, 2), Dec(y0, 2), Dec(x1, 2), Dec(y1, 2)>>, text |-> text]
SpanLists ==
  { <<>>,
    << Span(0, 1000, 1000, 5012, 2000, <<"T", "o", "t", "a", "l", " ", "4", "2">>),
       Span(1, 504, 618, 731, 899, <<"4", "2">>) >>,
    << Span(0, 104, 200, 300, 400, <<"D", "a", "t", "e">>) >> }

\* the values an LLM field may carry
ValPlain == <<"4", "2">>
ValTagged == <<"[", "4", "2", "]", "<", "@", "1", ":", "5", ".", "0", ",", "6", ".", "0", ",", "7", ".", "0", ",", "8", ".", "0", ">">>
ValBadNumber == <<"<", "@", "0", ":", ".", ",", "1", ",", "2", ",", "3", ">">>
ValUnmatched == <<"z", "z">>
GptValues == {ValPlain, ValTagged, ValBadNumber, ValUnmatched}
GptKeys == {KeyTotal, KeyDate, KeyFileName}

\* the field lists an LLM response may carry
GptFieldLists ==
  UNION {[1..n -> [key : GptKeys, value : GptValues]] : n \in 0..MaxGptFields}

\* {"fields": [{"key": ..., "value": ...}, ...]}
FieldObject(f) == JObj(<<Member(StrKey, JStr(f.key)), Member(StrValue, JStr(f.value))>>)
ResponseOf(fields) ==
  JObj(<<Member(StrFields, JArr([i \in 1..Len(fields) |-> FieldObject(fields[i])]))>>)

\* the completions generate_completion may return in a process_pdf run:
\* a well-formed response, prose with no JSON, or a JSON list
Completions ==
  {JsonDumps(ResponseOf(fields)) : fields \in GptFieldLists}
    \cup { <<Tok("text")>>, JsonDumps(JArr(<<>>)) }

(***************************************************************************)
(* State.                                                                  *)
(***************************************************************************)
VARIABLES
  pc,                       \* where process_pdf stands
  is_fine_tuned,            \* GPTService.is_fine_tuned
  input_pdf_path, output_pdf_path, validation_mode,
  template, alternative_names, extraction_rules,
  filename_fields, gpt_template, gpt_alternative_names, gpt_extraction_rules,
  text_content, positions, coordinate_embedded_text,
  messages,                 \* the messages of the LLM call, once made
  content,                  \* the completion generate_completion returned
  response_data,            \* the parsed completion
  gpt_analysis,             \* the DocumentAnalysis, once returned
  field_idx,                \* the loop of lines 259-315
  extracted_fields,
  json_artifact, annotated_pdf,
  calls,                    \* the collaborators called, in order
  error,                    \* the error that left the operation
  span, marker, decoded,    \* a span, its marker and what the decoder reads from it
  llm_value,                \* a value string handed to the marker functions
  clean_value, clean_again, \* _clean_value_from_coordinates of it, once and twice
  field_key,                \* a key handed to _is_filename_field
  is_filename, is_filename_upper,   \* its result for the key and for key.upper()
  worksheet_data,           \* what _get_worksheet_data returned
  pdf_files, file_idx,      \* cli.main: the PDFs of the input folder and the loop over them
  processed,                \* the PDFs process_pdf was called for, in order
  logged,                   \* the errors cli.main logged
  exit_code,                \* the status cli.main exited with
  openai_api_key,           \* the module attribute openai.api_key
  workers,                  \* two process_pdf invocations, each on its own extractor
  annotations, warnings,    \* create_annotated_pdf: what is drawn on the document, what is logged
  max_retries, attempt,     \* retry_on_timeout: the argument and the loop variable
  attempts,                 \* what each invocation of the wrapped function did
  returned,                 \* how the wrapper was left
  json_files, json_idx,     \* process_json_files: the JSON files and the loop over them
  session_id,
  existing_file_names_exact, existing_file_names_normalized,
  next_row_number, successful_syncs, skipped_files,
  requests_sent             \* the workbook requests issued, in order

args == <<input_pdf_path, output_pdf_path, validation_mode>>
schema == <<template, alternative_names, extraction_rules>>
filtered == <<filename_fields, gpt_template, gpt_alternative_names, gpt_extraction_rules>>
texts == <<text_content, positions, coordinate_embedded_text>>
analysis == <<messages, content, response_data, gpt_analysis>>
markers == <<span, marker, decoded>>
units == <<llm_value, clean_value, clean_again, field_key, is_filename, is_filename_upper,
           worksheet_data>>
outputs == <<json_artifact, annotated_pdf>>
batch == <<pdf_files, file_idx, processed, logged, exit_code>>
parallel == <<openai_api_key, workers>>
annotating == <<annotations, warnings>>
retrying == <<max_retries, attempt, attempts, returned>>
syncing == <<json_files, json_idx, session_id, existing_file_names_exact,
             existing_file_names_normalized, next_row_number, successful_syncs,
             skipped_files, requests_sent>>
drivers == <<batch, parallel, annotating, retrying, syncing>>
vars == <<pc, is_fine_tuned, args, schema, filtered, texts, analysis, field_idx,
          extracted_fields, outputs, calls, error, markers, units, drivers>>

EmptyTemplate == [document_type |-> <<>>, fields |-> <<>>]

\* no function has been handed a value, a key or a worksheet
UnitsIdle ==
  /\ llm_value = NoneV /\ clean_value = NoneV /\ clean_again = NoneV
  /\ field_key = NoneV /\ is_filename = NoneV /\ is_filename_upper = NoneV
  /\ worksheet_data = NoneV

\* no batch is run, no second invocation, no annotation, no wrapped call, no sync
DriversIdle ==
  /\ pdf_files = <<>> /\ file_idx = 0 /\ processed = <<>> /\ logged = <<>> /\ exit_code = NoneV
  /\ openai_api_key = NoneV /\ workers = <<>>
  /\ annotations = <<>> /\ warnings = <<>>
  /\ max_retries = 0 /\ attempt = 0 /\ attempts = <<>> /\ returned = NoneV
  /\ json_files = <<>> /\ json_idx = 0 /\ session_id = NoneV
  /\ existing_file_names_exact = {} /\ existing_file_names_normalized = <<>>
  /\ next_row_number = 0 /\ successful_syncs = 0 /\ skipped_files = 0
  /\ requests_sent = <<>>

\* PDFExtractor.__init__
Init ==
  /\ pc = "idle"
  /\ is_fine_tuned \in BOOLEAN
  /\ input_pdf_path = <<>> /\ output_pdf_path = NoneV /\ validation_mode = FALSE
  /\ template = EmptyTemplate /\ alternative_names = NoneV /\ extraction_rules = NoneV
  /\ filename_fields = <<>> /\ gpt_template = EmptyTemplate
  /\ gpt_alternative_names = NoneV /\ gpt_extraction_rules = NoneV
  /\ text_content = <<>> /\ positions = NoneV /\ coordinate_embedded_text = <<>>
  /\ messages = NoneV /\ content = NoneV /\ response_data = NoneV /\ gpt_analysis = NoneV
  /\ field_idx = 0
  /\ extracted_fields = <<>>
  /\ json_artifact = NoneV /\ annotated_pdf = NoneV
  /\ calls = <<>>
  /\ UnitsIdle
  /\ DriversIdle
  /\ error = NoneV
  /\ span = NoneV /\ marker = NoneV /\ decoded = NoneV

ExtractedField(key, value, page, bbox) == [key |-> key, value |-> value, page |-> page, bbox |-> bbox]

\* process_pdf is called
ProcessPdf ==
  /\ pc = "idle"
  /\ \E inv \in Invocations, mode \in BOOLEAN :
       /\ input_pdf_path' = inv.input_pdf_path
       /\ output_pdf_path' = inv.output_pdf_path
       /\ validation_mode' = mode
  /\ pc' = "build_schema"
  /\ UNCHANGED <<drivers, units, markers, is_fine_tuned, schema, filtered, texts, analysis, field_idx,
                 extracted_fields, outputs, calls, error>>

\* lines 223-231: the schema, the filename fields, the filtered schema
BuildSchema ==
  /\ pc = "build_schema"
  /\ \E src \in SchemaSources :
       /\ template' = src.template
       /\ alternative_names' = src.alternative_names
       /\ extraction_rules' = src.extraction_rules
       /\ filename_fields' = ExtractFilenameFields(src.template, input_pdf_path)
       /\ gpt_template' = FilterNonFilenameFields(src.template)
       /\ gpt_alternative_names' = FilterMetadataForNonFilenameFields(src.alternative_names)
       /\ gpt_extraction_rules' = FilterMetadataForNonFilenameFields(src.extraction_rules)
  /\ calls' = Append(calls, "build_extraction_schema")
  /\ pc' = "extract_text"
  /\ UNCHANGED <<drivers, units, markers, is_fine_tuned, args, texts, analysis, field_idx, extracted_fields, outputs, error>>

\* build_extraction_schema raises
BuildSchemaFails ==
  /\ pc = "build_schema"
  /\ calls' = Append(calls, "build_extraction_schema")
  /\ error' = Some("SchemaError")
  /\ pc' = "raised"
  /\ UNCHANGED <<drivers, units, markers, is_fine_tuned, args, schema, filtered, texts, analysis, field_idx,
                 extracted_fields, outputs>>

\* lines 234-241
ExtractText ==
  /\ pc = "extract_text"
  /\ IF validation_mode
     THEN /\ text_content' = DocText
          /\ coordinate_embedded_text' = DocText
          /\ positions' = NoneV
          /\ calls' = Append(calls, "extract_text")
     ELSE /\ \E spans \in SpanLists :
               /\ text_content' = DocText
               /\ positions' = Some(spans)
               /\ coordinate_embedded_text' = CreateCoordinateEmbeddedText(DocText, spans)
          /\ calls' = Append(calls, "extract_text_and_positions")
  /\ pc' = "analyze"
  /\ UNCHANGED <<drivers, units, markers, is_fine_tuned, args, schema, filtered, analysis, field_idx,
                 extracted_fields, outputs, error>>

\* the PDF cannot be read
ExtractTextFails ==
  /\ pc = "extract_text"
  /\ calls' = Append(calls, IF validation_mode THEN "extract_text" ELSE "extract_text_and_positions")
  /\ error' = Some("PdfError")
  /\ pc' = "raised"
  /\ UNCHANGED <<drivers, units, markers, is_fine_tuned, args, schema, filtered, texts, analysis, field_idx,
                 extracted_fields, outputs>>

\* the call of analyze_document at lines 249-255, from its arguments to
\* its return: the messages sent and the DocumentAnalysis or error
AnalyzeDocument(completion, text, tmpl, alt_names, rules, include_coordinates, fine_tuned) ==
  [messages |-> BuildMessages(text, tmpl, alt_names, rules, include_coordinates, fine_tuned),
   result |-> ProcessResponse(completion, tmpl, text)]

\* lines 244-256, the model answering with the completion `content`
Analyze ==
  /\ pc = "analyze"
  /\ gpt_template.fields # <<>>
  /\ \E c \in Completions :
       LET call == AnalyzeDocument(c, coordinate_embedded_text, gpt_template,
                                   gpt_alternative_names, gpt_extraction_rules,
                                   ~validation_mode, is_fine_tuned)
       IN /\ messages' = Some(call.messages)
          /\ content' = Some(c)
          /\ response_data' = IF LoadResponse(c).kind = "ok" THEN Some(LoadResponse(c).data) ELSE NoneV
          /\ IF call.result.kind = "raise"
             THEN /\ error' = Some(call.result.error)
                  /\ pc' = "raised"
                  /\ UNCHANGED <<gpt_analysis, field_idx>>
             ELSE /\ gpt_analysis' = Some([document_type |-> call.result.document_type,
                                           fields |-> call.result.fields,
                                           text_content |-> call.result.text_content])
                  /\ field_idx' = 1
                  /\ pc' = IF call.result.fields = <<>> THEN "add_filename_fields" ELSE "reconcile"
                  /\ UNCHANGED error
  /\ calls' = Append(calls, "generate_completion")
  /\ UNCHANGED <<drivers, units, markers, is_fine_tuned, args, schema, filtered, texts, extracted_fields, outputs>>

\* mutant: the failure of the LLM call is caught after an empty result was saved
AnalyzeFailsAfterSaving ==
  /\ pc = "analyze"
  /\ gpt_template.fields # <<>>
  /\ messages' = Some(BuildMessages(coordinate_embedded_text, gpt_template, gpt_alternative_names,
                                    gpt_extraction_rules, ~validation_mode, is_fine_tuned))
  /\ calls' = calls \o <<"generate_completion", "json_dump">>
  /\ json_artifact' = Some([document_type |-> template.document_type, fields |-> <<>>,
                            text_content |-> text_content])
  /\ error' = Some("ApiError")
  /\ pc' = "raised"
  /\ UNCHANGED <<drivers, units, markers, is_fine_tuned, args, schema, filtered, texts, content, response_data,
                 gpt_analysis, field_idx, extracted_fields, annotated_pdf>>

\* generate_completion raises (network, API error)
AnalyzeFails ==
  /\ pc = "analyze"
  /\ gpt_template.fields # <<>>
  /\ messages' = Some(BuildMessages(coordinate_embedded_text, gpt_template, gpt_alternative_names,
                                    gpt_extraction_rules, ~validation_mode, is_fine_tuned))
  /\ calls' = Append(calls, "generate_completion")
  /\ error' = Some("ApiError")
  /\ pc' = "raised"
  /\ UNCHANGED <<drivers, units, markers, is_fine_tuned, args, schema, filtered, texts, content, response_data,
                 gpt_analysis, field_idx,
                 extracted_fields, outputs>>

\* lines 316-317: no non-filename field, no LLM call
SkipAnalysis ==
  /\ pc = "analyze"
  /\ gpt_template.fields = <<>>
  /\ pc' = "add_filename_fields"
  /\ UNCHANGED <<drivers, units, markers, is_fine_tuned, args, schema, filtered, texts, analysis, field_idx,
                 extracted_fields, outputs, calls, error>>

\* lines 266-275: the entry for a value that carries a marker
TaggedEntry(field, coord_info) ==
  ExtractedField(field.key, CleanValueFromCoordinates(field.value),
                 Some(coord_info.page), Some(coord_info.bbox))

\* mutant: the span's bbox is not copied
MatchedEntryWithoutBbox(field, pos) ==
  ExtractedField(field.key, field.value, Some(pos.page), NoneV)

\* lines 283-290: the entry for a value found in the span pos
MatchedEntry(field, pos) ==
  ExtractedField(field.key, field.value, Some(pos.page), Some(pos.bbox))

\* mutant: the entry of a value found nowhere is placed on the first page
UnmatchedEntryOnFirstPage(field) ==
  ExtractedField(field.key, field.value, Some(0), NoneV)

\* lines 297-304 and 308-315: the entry without coordinates
UnmatchedEntry(field) ==
  ExtractedField(field.key, field.value, NoneV, NoneV)

\* mutant: a span whose text equals the value is preferred to an earlier
\* span that contains it
FirstMatchPrefersEqualText(spans, field_value) ==
  LET hits == {i \in 1..Len(spans) : Contains(spans[i].text, field_value)}
      equal == {i \in hits : spans[i].text = field_value}
  IN IF hits = {} THEN 0
     ELSE IF equal # {} THEN CHOOSE i \in equal : \A j \in equal : i <= j
     ELSE CHOOSE i \in hits : \A j \in hits : i <= j

\* the loop of lines 281-293: the index of the first span whose text
\* contains the value (0: none)
FirstMatch(spans, field_value) ==
  LET hits == {i \in 1..Len(spans) : Contains(spans[i].text, field_value)}
  IN IF hits = {} THEN 0 ELSE CHOOSE i \in hits : \A j \in hits : i <= j

\* mutant: a value found in no span is not appended
ReconcileFieldDropsUnmatched(extracted, field, mode, spans) ==
  LET coord_info == ParseCoordinateFromResponse(field.value)
  IN IF coord_info.kind = "raise" THEN [kind |-> "raise", extracted_fields |-> extracted]
     ELSE IF coord_info.kind = "coords"
          THEN [kind |-> "ok", extracted_fields |-> Append(extracted, TaggedEntry(field, coord_info))]
     ELSE IF ~mode /\ spans.v # <<>>
          THEN LET found == FirstMatch(spans.v, field.value)
               IN IF found # 0
                  THEN [kind |-> "ok", extracted_fields |-> Append(extracted, MatchedEntry(field, spans.v[found]))]
                  ELSE [kind |-> "ok", extracted_fields |-> extracted]
     ELSE [kind |-> "ok", extracted_fields |-> Append(extracted, UnmatchedEntry(field))]

\* one pass of the loop of lines 259-315 for `field`: the list after it, or
\* the ValueError of _parse_coordinate_from_response
ReconcileField(extracted, field, mode, spans) ==
  LET coord_info == ParseCoordinateFromResponse(field.value)
  IN IF coord_info.kind = "raise" THEN [kind |-> "raise", extracted_fields |-> extracted]
     ELSE IF coord_info.kind = "coords"
          THEN [kind |-> "ok", extracted_fields |-> Append(extracted, TaggedEntry(field, coord_info))]
     ELSE IF ~mode /\ spans.v # <<>>
          THEN LET found == FirstMatch(spans.v, field.value)
               IN IF found # 0
                  THEN [kind |-> "ok", extracted_fields |-> Append(extracted, MatchedEntry(field, spans.v[found]))]
                  ELSE [kind |-> "ok", extracted_fields |-> Append(extracted, UnmatchedEntry(field))]
     ELSE [kind |-> "ok", extracted_fields |-> Append(extracted, UnmatchedEntry(field))]

\* one iteration of the loop of lines 259-315
Reconcile ==
  /\ pc = "reconcile"
  /\ field_idx <= Len(gpt_analysis.v.fields)
  /\ LET step == ReconcileField(extracted_fields, gpt_analysis.v.fields[field_idx],
                                validation_mode, positions)
     IN IF step.kind = "raise"
        THEN /\ error' = Some("ValueError")
             /\ pc' = "raised"
             /\ UNCHANGED <<field_idx, extracted_fields>>
        ELSE /\ extracted_fields' = step.extracted_fields
             /\ field_idx' = field_idx + 1
             /\ pc' = IF field_idx = Len(gpt_analysis.v.fields) THEN "add_filename_fields" ELSE "reconcile"
             /\ UNCHANGED error
  /\ UNCHANGED <<drivers, units, markers, is_fine_tuned, args, schema, filtered, texts, analysis, outputs, calls>>

\* lines 320-328: the entries of the filename fields
FilenameEntries(fields) ==
  [i \in 1..Len(fields) |-> ExtractedField(fields[i][1], fields[i][2], NoneV, NoneV)]

\* mutant: the filename entries are put before the entries of the LLM
AddFilenameFieldsFirst ==
  /\ pc = "add_filename_fields"
  /\ extracted_fields' = FilenameEntries(filename_fields) \o extracted_fields
  /\ pc' = "save"
  /\ UNCHANGED <<drivers, units, markers, is_fine_tuned, args, schema, filtered, texts, analysis, field_idx,
                 outputs, calls, error>>

\* lines 319-331
AddFilenameFields ==
  /\ pc = "add_filename_fields"
  /\ extracted_fields' = extracted_fields \o FilenameEntries(filename_fields)
  /\ pc' = "save"
  /\ UNCHANGED <<drivers, units, markers, is_fine_tuned, args, schema, filtered, texts, analysis, field_idx,
                 outputs, calls, error>>

\* lines 334-338: the ProcessingResult
ProcessingResult(tmpl, fields, mode, embedded, text) ==
  [document_type |-> tmpl.document_type,
   extracted_fields |-> fields,
   text_content |-> IF ~mode /\ embedded # <<>> THEN embedded ELSE text]

\* lines 364-376 of _save_results: the JSON written
OutputData(result) ==
  [document_type |-> result.document_type,
   fields |-> [i \in 1..Len(result.extracted_fields) |->
                 [key |-> result.extracted_fields[i].key,
                  value |-> result.extracted_fields[i].value,
                  page |-> result.extracted_fields[i].page,
                  bbox |-> result.extracted_fields[i].bbox]],
   text_content |-> result.text_content]

\* mutant: the annotated PDF is made whenever a path is given
WantsAnnotatedPdfInAnyMode(mode, out) == ~IsNone(out) /\ out.v # <<>>

\* line 384 of _save_results
WantsAnnotatedPdf(mode, out) == ~mode /\ ~IsNone(out) /\ out.v # <<>>

\* lines 334-347 and _save_results
SaveResults ==
  /\ pc = "save"
  /\ LET result == ProcessingResult(template, extracted_fields, validation_mode,
                                    coordinate_embedded_text, text_content)
     IN /\ json_artifact' = Some(OutputData(result))
        /\ IF WantsAnnotatedPdf(validation_mode, output_pdf_path)
           THEN /\ annotated_pdf' = Some(result.extracted_fields)
                /\ calls' = calls \o <<"json_dump", "create_annotated_pdf">>
           ELSE /\ UNCHANGED annotated_pdf
                /\ calls' = Append(calls, "json_dump")
  /\ pc' = "done"
  /\ UNCHANGED <<drivers, units, markers, is_fine_tuned, args, schema, filtered, texts, analysis, field_idx,
                 extracted_fields, error>>

Next ==
  \/ ProcessPdf
  \/ BuildSchema
  \/ BuildSchemaFails
  \/ ExtractText
  \/ ExtractTextFails
  \/ Analyze
  \/ AnalyzeFails
  \/ SkipAnalysis
  \/ Reconcile
  \/ AddFilenameFields
  \/ SaveResults

Spec == Init /\ [][Next]_vars

(***************************************************************************)
(* analyze_document on its own, for every shape of completion.             *)
(***************************************************************************)
\* longest 'fields' list drawn for a response
MaxRespFields == 3

\* what the objects of a 'fields' list may look like
RespItems ==
  { JObj(<<Member(StrKey, JStr(<<"a">>)), Member(StrValue, JStr(<<"b">>))>>),
    JObj(<<Member(StrKey, JStr(<<"c">>)), Member(StrValue, JStr(<<"d">>))>>),
    JObj(<<Member(StrKey, JStr(<<"a">>)), Member(StrValue, JStr(<<"e">>)), Member(<<"p", "a", "g", "e">>, JNum)>>),
    JObj(<<Member(StrKey, JStr(<<"a">>))>>),
    JObj(<<Member(StrKey, JNull), Member(StrValue, JStr(<<"b">>))>>),
    JNum }

\* the JSON values a completion may hold
RespValues ==
  {JObj(<<Member(StrFields, JArr(items))>>) :
     items \in UNION {[1..n -> RespItems] : n \in 0..MaxRespFields}}
  \cup { JObj(<<Member(StrFields, JNum)>>),
         JObj(<<Member(StrFields, JNull)>>),
         JObj(<<Member(StrFields, JStr(<<"a", "b">>))>>),
         JObj(<<Member(StrFields, JObj(<<Member(StrKey, JStr(<<"a">>))>>))>>),
         JObj(<<>>),
         JObj(<<Member(<<"d", "a", "t", "a">>, JStr(<<"a">>))>>),
         JArr(<<JObj(<<Member(StrKey, JStr(<<"a">>)), Member(StrValue, JStr(<<"b">>))>>)>>),
         JNum, JNull, JStr(<<"a">>) }

\* prose around the JSON, with and without braces of its own
RespPrefixes == { <<>>, <<Tok("text")>>, <<Tok("{"), Tok("text"), Tok("}"), Tok("text")>> }
RespSuffixes == { <<>>, <<Tok("text")>>, <<Tok("text"), Tok("{"), Tok("text"), Tok("}")>>, <<Tok("}")>> }

RespCompletions ==
  {pre \o JsonDumps(val) \o suf : pre \in RespPrefixes, val \in RespValues, suf \in RespSuffixes}
  \cup { <<Tok("text")>>, <<Tok("text"), Tok("{"), Tok("text")>>, <<Tok("}"), Tok("text"), Tok("{")>> }

\* analyze_document is entered with a template of two fields
InitAnalyze ==
  /\ pc = "analyze_document"
  /\ is_fine_tuned \in BOOLEAN
  /\ input_pdf_path = <<>> /\ output_pdf_path = NoneV /\ validation_mode = FALSE
  /\ template = EmptyTemplate /\ alternative_names = NoneV /\ extraction_rules = NoneV
  /\ filename_fields = <<>>
  /\ gpt_template = [document_type |-> DocumentType,
                     fields |-> <<FieldTemplate(KeyDate), FieldTemplate(KeyTotal)>>]
  /\ gpt_alternative_names = NoneV
  /\ gpt_extraction_rules = Some(<< <<KeyDate, <<"i", "s", "o">>>> >>)
  /\ text_content = DocText /\ positions = NoneV /\ coordinate_embedded_text = DocText
  /\ messages = NoneV /\ content = NoneV /\ response_data = NoneV /\ gpt_analysis = NoneV
  /\ field_idx = 0
  /\ extracted_fields = <<>>
  /\ json_artifact = NoneV /\ annotated_pdf = NoneV
  /\ calls = <<>>
  /\ UnitsIdle
  /\ DriversIdle
  /\ error = NoneV
  /\ span = NoneV /\ marker = NoneV /\ decoded = NoneV

\* lines 40-156: the prompt is sent and a completion comes back
GenerateCompletion ==
  /\ pc = "analyze_document"
  /\ messages' = Some(BuildMessages(coordinate_embedded_text, gpt_template, gpt_alternative_names,
                                    gpt_extraction_rules, ~validation_mode, is_fine_tuned))
  /\ \E c \in RespCompletions : content' = Some(c)
  /\ calls' = Append(calls, "generate_completion")
  /\ pc' = "load_response"
  /\ UNCHANGED <<drivers, units, markers, is_fine_tuned, args, schema, filtered, texts, response_data, gpt_analysis,
                 field_idx, extracted_fields, outputs, error>>

\* lines 159-180
LoadCompletion ==
  /\ pc = "load_response"
  /\ LET loaded == LoadResponse(content.v)
     IN IF loaded.kind = "raise"
        THEN /\ error' = Some(loaded.error)
             /\ pc' = "raised"
             /\ UNCHANGED response_data
        ELSE /\ response_data' = Some(loaded.data)
             /\ pc' = "validate_fields"
             /\ UNCHANGED error
  /\ UNCHANGED <<drivers, units, markers, is_fine_tuned, args, schema, filtered, texts, messages, content, gpt_analysis,
                 field_idx, extracted_fields, outputs, calls>>

\* lines 182-201
ValidateResponse ==
  /\ pc = "validate_fields"
  /\ LET done == ProcessResponse(content.v, gpt_template, coordinate_embedded_text)
     IN IF done.kind = "raise"
        THEN /\ error' = Some(done.error)
             /\ pc' = "raised"
             /\ UNCHANGED gpt_analysis
        ELSE /\ gpt_analysis' = Some([document_type |-> done.document_type,
                                      fields |-> done.fields,
                                      text_content |-> done.text_content])
             /\ pc' = "returned"
             /\ UNCHANGED error
  /\ UNCHANGED <<drivers, units, markers, is_fine_tuned, args, schema, filtered, texts, messages, content, response_data,
                 field_idx, extracted_fields, outputs, calls>>

NextAnalyze ==
  \/ GenerateCompletion
  \/ LoadCompletion
  \/ ValidateResponse

SpecAnalyze == InitAnalyze /\ [][NextAnalyze]_vars

(***************************************************************************)
(* The marker of one span, encoded and decoded.                            *)
(***************************************************************************)
\* highest page index drawn for a span
MaxPage == 11

\* span texts: plain, with a space, with brackets, with the text of a
\* marker in it, blank and empty
MarkerTexts ==
  { <<"4", "2">>,
    <<"a", " ", "b">>,
    <<"[", "x", "]">>,
    <<"<", "@", "9", ":", "9", ",", "9", ",", "9", ",", "9", ">">>,
    <<" ">>,
    <<>> }

\* bbox corners (x0, y0) and (x1, y1), with x0 <= x1 and y0 <= y1
CornerLow == { Dec(-150, 2), Dec(0, 0), Dec(1234, 2) }
CornerHigh == { Dec(5012, 2), Dec(99996, 2) }

InitMarker ==
  /\ pc = "span"
  /\ is_fine_tuned = FALSE
  /\ input_pdf_path = <<>> /\ output_pdf_path = NoneV /\ validation_mode = FALSE
  /\ template = EmptyTemplate /\ alternative_names = NoneV /\ extraction_rules = NoneV
  /\ filename_fields = <<>> /\ gpt_template = EmptyTemplate
  /\ gpt_alternative_names = NoneV /\ gpt_extraction_rules = NoneV
  /\ text_content = <<>> /\ positions = NoneV /\ coordinate_embedded_text = <<>>
  /\ messages = NoneV /\ content = NoneV /\ response_data = NoneV /\ gpt_analysis = NoneV
  /\ field_idx = 0
  /\ extracted_fields = <<>>
  /\ json_artifact = NoneV /\ annotated_pdf = NoneV
  /\ calls = <<>>
  /\ UnitsIdle
  /\ DriversIdle
  /\ error = NoneV
  /\ \E page \in 0..MaxPage, text \in MarkerTexts, x0 \in CornerLow, y0 \in CornerLow,
        x1 \in CornerHigh, y1 \in CornerHigh :
       span = Some([page |-> page, bbox |-> <<x0, y0, x1, y1>>, text |-> text])
  /\ marker = NoneV /\ decoded = NoneV

\* lines 128-137 for the span: its marker, if its text is not blank
EncodeSpan ==
  /\ pc = "span"
  /\ LET emitted == PageMarkers(<<span.v>>, span.v.page)
     IN IF emitted = <<>>
        THEN pc' = "blank" /\ UNCHANGED marker
        ELSE pc' = "encoded" /\ marker' = Some(emitted[1])
  /\ UNCHANGED <<drivers, units, is_fine_tuned, args, schema, filtered, texts, analysis, field_idx,
                 extracted_fields, outputs, calls, error, span, decoded>>

\* _parse_coordinate_from_response on the marker
DecodeMarker ==
  /\ pc = "encoded"
  /\ decoded' = Some(ParseCoordinateFromResponse(marker.v))
  /\ pc' = "decoded"
  /\ UNCHANGED <<drivers, units, is_fine_tuned, args, schema, filtered, texts, analysis, field_idx,
                 extracted_fields, outputs, calls, error, span, marker>>

NextMarker ==
  \/ EncodeSpan
  \/ DecodeMarker

SpecMarker == InitMarker /\ [][NextMarker]_vars

(***************************************************************************)
(* The marker functions applied to one value string.                       *)
(***************************************************************************)
\* process_pdf is not running
ExtractorIdle ==
  /\ is_fine_tuned = FALSE
  /\ input_pdf_path = <<>> /\ output_pdf_path = NoneV /\ validation_mode = FALSE
  /\ template = EmptyTemplate /\ alternative_names = NoneV /\ extraction_rules = NoneV
  /\ filename_fields = <<>> /\ gpt_template = EmptyTemplate
  /\ gpt_alternative_names = NoneV /\ gpt_extraction_rules = NoneV
  /\ text_content = <<>> /\ positions = NoneV /\ coordinate_embedded_text = <<>>
  /\ messages = NoneV /\ content = NoneV /\ response_data = NoneV /\ gpt_analysis = NoneV
  /\ field_idx = 0
  /\ extracted_fields = <<>>
  /\ json_artifact = NoneV /\ annotated_pdf = NoneV
  /\ calls = <<>>
  /\ error = NoneV

\* the rest of the process, untouched while one function is exercised
ProcessIdle == ExtractorIdle /\ DriversIdle

\* most pieces a drawn value is made of
MaxValueParts == 3

\* two markers, a marker whose first number is ".", and a marker written
\* around another marker
MarkerFirst == <<"<", "@", "1", ":", "5", ",", "6", ",", "7", ",", "8", ">">>
MarkerSecond == <<"<", "@", "2", ":", "1", ".", "5", ",", "2", ",", "3", ",", "4", ">">>
MarkerBadNumber == <<"<", "@", "0", ":", ".", ",", "1", ",", "2", ",", "3", ">">>
MarkerNested == <<"<", "<", "@", "1", ":", "5", ",", "6", ",", "7", ",", "8", ">", "@", "1", ":", "5", ",", "6", ",", "7", ",", "8", ">">>

\* the pieces values are made of
ValuePieces ==
  { <<"[">>, <<"]">>, <<"4">>, <<" ">>, <<"[", "4", "]">>,
    MarkerFirst, MarkerSecond, MarkerBadNumber, MarkerNested }

RECURSIVE ConcatAll(_)
ConcatAll(parts) == IF parts = <<>> THEN <<>> ELSE Head(parts) \o ConcatAll(Tail(parts))

\* the value strings drawn
ValueStrings ==
  {ConcatAll(parts) : parts \in UNION {[1..n -> ValuePieces] : n \in 0..MaxValueParts}}

InitValue ==
  /\ pc = "value"
  /\ ProcessIdle
  /\ span = NoneV /\ marker = NoneV /\ decoded = NoneV
  /\ llm_value \in {Some(v) : v \in ValueStrings}
  /\ clean_value = NoneV /\ clean_again = NoneV
  /\ field_key = NoneV /\ is_filename = NoneV /\ is_filename_upper = NoneV
  /\ worksheet_data = NoneV

\* _parse_coordinate_from_response(value)
ParseValueMarker ==
  /\ pc = "value"
  /\ decoded' = Some(ParseCoordinateFromResponse(llm_value.v))
  /\ pc' = "parsed"
  /\ UNCHANGED <<drivers, is_fine_tuned, args, schema, filtered, texts, analysis, field_idx,
                 extracted_fields, outputs, calls, error, span, marker, units>>

\* _clean_value_from_coordinates(value)
CleanValue ==
  /\ pc = "parsed"
  /\ clean_value' = Some(CleanValueFromCoordinates(llm_value.v))
  /\ pc' = "cleaned"
  /\ UNCHANGED <<drivers, is_fine_tuned, args, schema, filtered, texts, analysis, field_idx,
                 extracted_fields, outputs, calls, error, markers, llm_value, clean_again,
                 field_key, is_filename, is_filename_upper, worksheet_data>>

\* _clean_value_from_coordinates applied to its own result
CleanAgain ==
  /\ pc = "cleaned"
  /\ clean_again' = Some(CleanValueFromCoordinates(clean_value.v))
  /\ pc' = "cleaned_again"
  /\ UNCHANGED <<drivers, is_fine_tuned, args, schema, filtered, texts, analysis, field_idx,
                 extracted_fields, outputs, calls, error, markers, llm_value, clean_value,
                 field_key, is_filename, is_filename_upper, worksheet_data>>

NextValue ==
  \/ ParseValueMarker
  \/ CleanValue
  \/ CleanAgain

SpecValue == InitValue /\ [][NextValue]_vars

(***************************************************************************)
(* _is_filename_field applied to one key and to the key in upper case.     *)
(***************************************************************************)
\* most pieces a drawn key is made of
MaxKeyParts == 3

\* the pieces keys are made of
KeyPieces ==
  { <<"f", "i", "l", "e">>, <<"F", "i", "l", "e">>, <<"n", "a", "m", "e">>, <<"N", "A", "M", "E">>, <<"d", "o", "c", "u", "m", "e", "n", "t">>, <<"T", "o", "t", "a", "l">>, <<" ">>, <<"_">>,
    <<"f", DotlessI, "l", "e">>, <<LigatureFi, "l", "e">> }

\* the keys drawn
FieldKeys ==
  {ConcatAll(parts) : parts \in UNION {[1..n -> KeyPieces] : n \in 0..MaxKeyParts}}

InitKey ==
  /\ pc = "key"
  /\ ProcessIdle
  /\ span = NoneV /\ marker = NoneV /\ decoded = NoneV
  /\ llm_value = NoneV /\ clean_value = NoneV /\ clean_again = NoneV
  /\ field_key \in {Some(k) : k \in FieldKeys}
  /\ is_filename = NoneV /\ is_filename_upper = NoneV
  /\ worksheet_data = NoneV

\* _is_filename_field(key)
CheckKey ==
  /\ pc = "key"
  /\ is_filename' = Some(IsFilenameField(field_key.v))
  /\ pc' = "checked"
  /\ UNCHANGED <<drivers, is_fine_tuned, args, schema, filtered, texts, analysis, field_idx,
                 extracted_fields, outputs, calls, error, markers, llm_value, clean_value,
                 clean_again, field_key, is_filename_upper, worksheet_data>>

\* _is_filename_field(key.upper())
CheckUpperKey ==
  /\ pc = "checked"
  /\ is_filename_upper' = Some(IsFilenameField(Upper(field_key.v)))
  /\ pc' = "checked_upper"
  /\ UNCHANGED <<drivers, is_fine_tuned, args, schema, filtered, texts, analysis, field_idx,
                 extracted_fields, outputs, calls, error, markers, llm_value, clean_value,
                 clean_again, field_key, is_filename, worksheet_data>>

NextKey ==
  \/ CheckKey
  \/ CheckUpperKey

SpecKey == InitKey /\ [][NextKey]_vars

(***************************************************************************)
(* SharePointSchemaBuilder.build_extraction_schema on one worksheet.       *)
(***************************************************************************)
\* most rows of a drawn worksheet
MaxRows == 4

LabelAlternativeNames == <<"A", "l", "t", "e", "r", "n", "a", "t", "i", "v", "e", " ", "C", "o", "l", "u", "m", "n", " ", "N", "a", "m", "e", "s">>
LabelExtractionRules == <<"C", "o", "l", "u", "m", "n", " ", "E", "x", "t", "r", "a", "c", "t", "i", "o", "n", " ", "R", "u", "l", "e", "s">>
CellEmpty == <<>>
CellBlank == <<" ">>
CellTotal == KeyTotal
CellDatePadded == <<" ">> \o KeyDate \o <<" ">>
CellSum == <<"S", "u", "m">>
CellIso == <<"i", "s", "o">>

\* rows 0, 1 and 2 of the sheet, and the data rows below them
AlternativeNamesRows ==
  { <<LabelAlternativeNames, CellSum, CellEmpty>>,
    <<CellSum, CellIso, LabelAlternativeNames>>,
    <<LabelAlternativeNames, LabelAlternativeNames, CellSum>>,
    <<LabelExtractionRules, CellBlank, CellSum>>,
    <<CellSum>>,
    <<CellEmpty, CellEmpty, CellEmpty>> }
ExtractionRulesRows ==
  { <<LabelExtractionRules, CellIso, CellEmpty>>,
    <<CellEmpty, LabelExtractionRules, CellIso>>,
    <<LabelExtractionRules, CellSum, LabelExtractionRules>>,
    <<CellIso, CellIso>>,
    <<>> }
HeaderRows ==
  { <<CellTotal, CellDatePadded, KeyFileName>>,
    <<CellEmpty, CellTotal, CellDatePadded>>,
    <<CellTotal, CellEmpty, CellTotal>>,
    <<CellTotal>>,
    <<CellEmpty, CellBlank, CellEmpty>>,
    <<>> }
DataRows == { <<CellSum, CellEmpty, CellIso>> }

\* the grids: the first n rows of a sheet
Grids ==
  UNION { { SubSeq(<<r0, r1, r2>> \o [i \in 1..(MaxRows - 3) |-> d], 1, n) : n \in 0..MaxRows }
          : <<r0, r1, r2, d>> \in AlternativeNamesRows \X ExtractionRulesRows \X HeaderRows \X DataRows }

\* what _get_worksheet_data returns: nothing, a body without 'values', or a
\* body with the grid
Worksheets ==
  { [kind |-> "empty"], [kind |-> "no_values"] }
    \cup { [kind |-> "values", values |-> g] : g \in Grids }

\* line 174
HasSchemaRows(sheet) == sheet.kind = "values" /\ Len(sheet.values) >= 3

\* mutant: no label column is looked for
NoLabelColumn(row, label) == 0

\* lines 185-196: the index of the first cell of the row that is the
\* label (0: none)
LabelColumn(row, label) ==
  LET hits == {i \in 1..Len(row) : row[i] = label}
  IN IF hits = {} THEN 0 ELSE CHOOSE i \in hits : \A j \in hits : i <= j

\* lines 213 and 217: the column has a cell in the row, not empty, and is
\* not the label column
HasMetadata(row, i, label_col) == i <= Len(row) /\ row[i] # <<>> /\ i # label_col

\* the loop of lines 205-218 from column i on
RECURSIVE SchemaFrom(_, _, _, _, _, _, _)
SchemaFrom(headers_row, alternative_names_row, extraction_rules_row, alt_names_col, rules_col, i, acc) ==
  IF i > Len(headers_row) THEN acc
  ELSE LET header == headers_row[i]
           header_key == Strip(header)
       IN SchemaFrom(headers_row, alternative_names_row, extraction_rules_row, alt_names_col, rules_col, i + 1,
            IF header # <<>> /\ header_key # <<>>
            THEN [fields |-> Append(acc.fields, FieldTemplate(header_key)),
                  alternative_names |->
                    IF HasMetadata(alternative_names_row, i, alt_names_col)
                    THEN DictSet(acc.alternative_names, header_key, alternative_names_row[i])
                    ELSE acc.alternative_names,
                  extraction_rules |->
                    IF HasMetadata(extraction_rules_row, i, rules_col)
                    THEN DictSet(acc.extraction_rules, header_key, extraction_rules_row[i])
                    ELSE acc.extraction_rules]
            ELSE acc)

\* lines 179-230 for the three schema rows
SchemaOfRows(alternative_names_row, extraction_rules_row, headers_row) ==
  LET built == SchemaFrom(headers_row, alternative_names_row, extraction_rules_row,
                          LabelColumn(alternative_names_row, LabelAlternativeNames),
                          LabelColumn(extraction_rules_row, LabelExtractionRules),
                          1, [fields |-> <<>>, alternative_names |-> <<>>, extraction_rules |-> <<>>])
  IN [kind |-> "schema",
      template |-> [document_type |-> DocumentType, fields |-> built.fields],
      alternative_names |-> built.alternative_names,
      extraction_rules |-> built.extraction_rules]

\* mutant: rows the sheet does not have are read as empty rows
BuildExtractionSchemaPadsRows(sheet) ==
  LET rows == IF sheet.kind = "values" THEN sheet.values ELSE <<>>
      Row(i) == IF i <= Len(rows) THEN rows[i] ELSE <<>>
  IN SchemaOfRows(Row(1), Row(2), Row(3))

\* SharePointSchemaBuilder.build_extraction_schema from line 172 on
BuildExtractionSchema(sheet) ==
  IF ~HasSchemaRows(sheet) THEN [kind |-> "raise", error |-> "ValueError"]
  ELSE SchemaOfRows(sheet.values[1], sheet.values[2], sheet.values[3])

InitSchema ==
  /\ pc = "worksheet"
  /\ ProcessIdle
  /\ span = NoneV /\ marker = NoneV /\ decoded = NoneV
  /\ llm_value = NoneV /\ clean_value = NoneV /\ clean_again = NoneV
  /\ field_key = NoneV /\ is_filename = NoneV /\ is_filename_upper = NoneV
  /\ worksheet_data \in {Some(w) : w \in Worksheets}

\* build_extraction_schema returns the schema
SchemaBuilt ==
  /\ pc = "worksheet"
  /\ LET built == BuildExtractionSchema(worksheet_data.v)
     IN /\ built.kind = "schema"
        /\ template' = built.template
        /\ alternative_names' = Some(built.alternative_names)
        /\ extraction_rules' = Some(built.extraction_rules)
  /\ pc' = "schema_built"
  /\ UNCHANGED <<drivers, is_fine_tuned, args, filtered, texts, analysis, field_idx,
                 extracted_fields, outputs, calls, error, markers, units>>

\* build_extraction_schema raises
SchemaRaises ==
  /\ pc = "worksheet"
  /\ LET built == BuildExtractionSchema(worksheet_data.v)
     IN /\ built.kind = "raise"
        /\ error' = Some(built.error)
  /\ pc' = "raised"
  /\ UNCHANGED <<drivers, is_fine_tuned, args, schema, filtered, texts, analysis, field_idx,
                 extracted_fields, outputs, calls, markers, units>>

NextSchema ==
  \/ SchemaBuilt
  \/ SchemaRaises

SpecSchema == InitSchema /\ [][NextSchema]_vars

(***************************************************************************)
(* cli.main: the batch over the PDFs of the input folder.                  *)
(***************************************************************************)
\* most PDFs in the input folder
MaxPdfFiles == 4

\* a PDF of the folder: whether both of its output files exist already, non-empty
PdfFile(outputs_exist) == [outputs_exist |-> outputs_exist]
PdfFolders == UNION {[1..n -> {PdfFile(b) : b \in BOOLEAN}] : n \in 0..MaxPdfFiles}

\* the rest of the program, untouched while a driver runs
CoreIdle ==
  /\ ExtractorIdle
  /\ span = NoneV /\ marker = NoneV /\ decoded = NoneV
  /\ UnitsIdle

\* the drivers but the batch
BatchOnly ==
  /\ openai_api_key = NoneV /\ workers = <<>>
  /\ annotations = <<>> /\ warnings = <<>>
  /\ max_retries = 0 /\ attempt = 0 /\ attempts = <<>> /\ returned = NoneV
  /\ json_files = <<>> /\ json_idx = 0 /\ session_id = NoneV
  /\ existing_file_names_exact = {} /\ existing_file_names_normalized = <<>>
  /\ next_row_number = 0 /\ successful_syncs = 0 /\ skipped_files = 0
  /\ requests_sent = <<>>

core == <<is_fine_tuned, args, schema, filtered, texts, analysis, field_idx,
          extracted_fields, outputs, calls, error, markers, units>>

\* cli.py:77-105: the arguments are valid, the extractor is built, the folder is listed
InitBatch ==
  /\ pc = "main"
  /\ CoreIdle
  /\ pdf_files \in PdfFolders
  /\ file_idx = 0 /\ processed = <<>> /\ logged = <<>> /\ exit_code = NoneV
  /\ BatchOnly

\* lines 107-109: no PDF in the folder
NoPdfFiles ==
  /\ pc = "main"
  /\ pdf_files = <<>>
  /\ exit_code' = Some(0)
  /\ pc' = "exited"
  /\ UNCHANGED <<core, pdf_files, file_idx, processed, logged, parallel, annotating, retrying,
                 syncing>>

\* process_pdf_file, lines 46-51: both outputs exist, the PDF is skipped
SkipPdfFile ==
  /\ pc = "main"
  /\ file_idx < Len(pdf_files)
  /\ pdf_files[file_idx + 1].outputs_exist
  /\ file_idx' = file_idx + 1
  /\ UNCHANGED <<pc, core, pdf_files, processed, logged, exit_code, parallel, annotating,
                 retrying, syncing>>

\* process_pdf_file, lines 54-61: process_pdf returns
ProcessPdfFile ==
  /\ pc = "main"
  /\ file_idx < Len(pdf_files)
  /\ ~pdf_files[file_idx + 1].outputs_exist
  /\ processed' = Append(processed, file_idx + 1)
  /\ file_idx' = file_idx + 1
  /\ UNCHANGED <<pc, core, pdf_files, logged, exit_code, parallel, annotating, retrying,
                 syncing>>

\* process_pdf raises: process_pdf_file lets it through, the loop of main is left for the
\* handler of lines 122-124
ProcessPdfFileRaises ==
  /\ pc = "main"
  /\ file_idx < Len(pdf_files)
  /\ ~pdf_files[file_idx + 1].outputs_exist
  /\ processed' = Append(processed, file_idx + 1)
  /\ logged' = Append(logged, file_idx + 1)
  /\ exit_code' = Some(1)
  /\ pc' = "exited"
  /\ UNCHANGED <<core, pdf_files, file_idx, parallel, annotating, retrying, syncing>>

\* line 121: the loop is over
AllCompleted ==
  /\ pc = "main"
  /\ pdf_files # <<>>
  /\ file_idx = Len(pdf_files)
  /\ pc' = "completed"
  /\ UNCHANGED <<core, batch, parallel, annotating, retrying, syncing>>

NextBatch ==
  \/ NoPdfFiles
  \/ SkipPdfFile
  \/ ProcessPdfFile
  \/ ProcessPdfFileRaises
  \/ AllCompleted

SpecBatch == InitBatch /\ [][NextBatch]_vars

(***************************************************************************)
(* Two process_pdf invocations in one interpreter, each on its own         *)
(* extractor.  What they share is the module attribute openai.api_key.     *)
(***************************************************************************)
ApiKeys == {"key-a", "key-b"}

\* an extractor and its invocation: api_key is PDFExtractor.api_key, endpoint tells whether
\* its model has an endpoint (CustomOpenAIGPT) or not (OpenAIGPT), used_key is the
\* credential its LLM request carried
Worker(api_key, endpoint) ==
  [at |-> "idle", api_key |-> api_key, endpoint |-> endpoint, used_key |-> NoneV]

\* the drivers but the invocations
ParallelOnly ==
  /\ pdf_files = <<>> /\ file_idx = 0 /\ processed = <<>> /\ logged = <<>> /\ exit_code = NoneV
  /\ annotations = <<>> /\ warnings = <<>>
  /\ max_retries = 0 /\ attempt = 0 /\ attempts = <<>> /\ returned = NoneV
  /\ json_files = <<>> /\ json_idx = 0 /\ session_id = NoneV
  /\ existing_file_names_exact = {} /\ existing_file_names_normalized = <<>>
  /\ next_row_number = 0 /\ successful_syncs = 0 /\ skipped_files = 0
  /\ requests_sent = <<>>

\* the key OpenAIGPT.__init__ left in openai.api_key: that of the extractor built last
\* among those without an endpoint
KeyAfterConstruction(ws) ==
  IF ~ws[2].endpoint THEN Some(ws[2].api_key)
  ELSE IF ~ws[1].endpoint THEN Some(ws[1].api_key)
  ELSE NoneV

\* both extractors are built, the first one first
InitParallel ==
  /\ pc = "parallel"
  /\ CoreIdle
  /\ ParallelOnly
  /\ workers \in [1..2 -> {Worker(k, e) : k \in ApiKeys, e \in BOOLEAN}]
  /\ openai_api_key = KeyAfterConstruction(workers)

\* extractor.py:220 in invocation w
SetApiKey(w) ==
  /\ workers[w].at = "idle"
  /\ openai_api_key' = Some(workers[w].api_key)
  /\ workers' = [workers EXCEPT ![w].at = "started"]
  /\ UNCHANGED <<pc, core, batch, annotating, retrying, syncing>>

\* the credential generate_completion sends: CustomOpenAIGPT puts self.api_key in the header,
\* OpenAIGPT calls the module-level client, which reads openai.api_key at the call
RequestKey(worker, module_key) == IF worker.endpoint THEN Some(worker.api_key) ELSE module_key

\* generate_completion in invocation w
WorkerCompletion(w) ==
  /\ workers[w].at = "started"
  /\ workers' = [workers EXCEPT ![w].at = "analyzed",
                                ![w].used_key = RequestKey(workers[w], openai_api_key)]
  /\ UNCHANGED <<pc, core, batch, openai_api_key, annotating, retrying, syncing>>

\* the invocation returns its result
WorkerReturns(w) ==
  /\ workers[w].at = "analyzed"
  /\ workers' = [workers EXCEPT ![w].at = "done"]
  /\ UNCHANGED <<pc, core, batch, openai_api_key, annotating, retrying, syncing>>

NextParallel ==
  \/ \E w \in 1..2 : SetApiKey(w)
  \/ \E w \in 1..2 : WorkerCompletion(w)
  \/ \E w \in 1..2 : WorkerReturns(w)

SpecParallel == InitParallel /\ [][NextParallel]_vars

(***************************************************************************)
(* PDFService.create_annotated_pdf on a document and a field list.         *)
(***************************************************************************)
\* most fields in the list handed to create_annotated_pdf
MaxAnnotFields == 2
\* the pages of the document
PageCount == 2

\* a number as a fraction: the estimated corners are quotients
Rat(n, d) == [n |-> n, d |-> d]

\* a span as lines 91-97 record it
AnnotSpan(page, x0, y0, x1, y1, text, size) ==
  [page |-> page, bbox |-> <<x0, y0, x1, y1>>, text |-> text, origin |-> <<x0, y1>>,
   font_size |-> size]

\* lines 84-97: the spans of the document
DocSpans ==
  << AnnotSpan(0, 10, 10, 90, 20, <<"T", "o", "t", "a", "l", " ", "4", "2">>, 12),
     AnnotSpan(1, 5, 6, 25, 14, <<"4", "2">>, 8),
     AnnotSpan(1, 5, 30, 45, 38, <<"a", "4", "2", "b">>, 8) >>

\* the fields process_pdf may hand over: with a page and a bbox, or with neither
AnnotPages == {NoneV} \cup {Some(p) : p \in 0..PageCount}
AnnotFields ==
  { ExtractedField(k, v, p, IF IsNone(p) THEN NoneV ELSE Some(<<1, 2, 3, 4>>)) :
      k \in {KeyTotal, KeyDate}, v \in {ValPlain, ValUnmatched, KeyTotal}, p \in AnnotPages }
AnnotFieldLists == UNION {[1..n -> AnnotFields] : n \in 0..MaxAnnotFields}

\* str.index: the 0-based place of the first occurrence
IndexOf(text, value) == (CHOOSE i \in 1..(Len(text) + 1) :
                           /\ StartsAt(text, i, value)
                           /\ \A j \in 1..(i - 1) : ~StartsAt(text, j, value)) - 1

\* lines 50-71: the position estimated inside a span that contains the value
EstimatedPosition(pos, value) ==
  LET x0 == pos.origin[1]
      text == pos.text
      start_idx == IndexOf(text, value)
      width == pos.bbox[3] - pos.bbox[1]
  IN [page |-> pos.page,
      bbox |-> << Rat(x0 * Len(text) + start_idx * width, Len(text)),
                  Rat(pos.bbox[2], 1),
                  Rat(x0 * Len(text) + (start_idx + Len(value)) * width, Len(text)),
                  Rat(pos.bbox[4], 1) >>,
      text |-> value,
      font_size |-> pos.font_size]

\* lines 45-48: a span whose text is the value is returned as it is
ExactPosition(pos) ==
  [page |-> pos.page,
   bbox |-> <<Rat(pos.bbox[1], 1), Rat(pos.bbox[2], 1), Rat(pos.bbox[3], 1), Rat(pos.bbox[4], 1)>>,
   text |-> pos.text,
   font_size |-> pos.font_size]

\* PDFService.find_exact_value_position
FindExactValuePosition(page_positions, value) ==
  LET exact == {i \in 1..Len(page_positions) : page_positions[i].text = value}
      within == {i \in 1..Len(page_positions) : Contains(page_positions[i].text, value)}
      First(set) == CHOOSE i \in set : \A j \in set : i <= j
  IN IF exact # {} THEN Some(ExactPosition(page_positions[First(exact)]))
     ELSE IF within # {} THEN Some(EstimatedPosition(page_positions[First(within)], value))
     ELSE NoneV

\* what one pass of the loop body leaves: the annotations drawn, the warning logged
Drawn(drawn) == [drawn |-> drawn, warned |-> <<>>]
Warned(key) == [drawn |-> <<>>, warned |-> <<key>>]

\* lines 104-130 for a field, on the page of the given number; idx is the field's place
\* in the list
DrawOnPage(doc_positions, field, page_number, idx) ==
  IF page_number >= PageCount
  THEN Warned(field.key)
  ELSE LET on_page(p) == p.page = page_number
           value_pos == FindExactValuePosition(SelectSeq(doc_positions, on_page), field.value)
       IN IF IsNone(value_pos)
          THEN Drawn(<<>>)
          ELSE Drawn(<< [kind |-> "highlight", field |-> idx, page |-> page_number,
                         bbox |-> value_pos.v.bbox],
                        [kind |-> "label", field |-> idx, page |-> page_number,
                         point |-> << value_pos.v.bbox[1],
                                      Rat(value_pos.v.bbox[4].n + 2, 1) >>,
                         text |-> field.key,
                         fontsize |-> Rat(value_pos.v.font_size, 4)] >>)

\* mutant: a field without page is looked up on the first page
AnnotateNullOnFirstPage(doc_positions, field, idx) ==
  DrawOnPage(doc_positions, field, IF IsNone(field.page) THEN 0 ELSE field.page.v, idx)

\* lines 100-134, the body of the loop: doc[None] raises inside the try, and so does a
\* page number the document does not have
AnnotateOneField(doc_positions, field, idx) ==
  IF IsNone(field.page)
  THEN Warned(field.key)
  ELSE DrawOnPage(doc_positions, field, field.page.v, idx)

\* the drivers but the annotation
AnnotateOnly ==
  /\ pdf_files = <<>> /\ file_idx = 0 /\ processed = <<>> /\ logged = <<>> /\ exit_code = NoneV
  /\ openai_api_key = NoneV /\ workers = <<>>
  /\ max_retries = 0 /\ attempt = 0 /\ attempts = <<>> /\ returned = NoneV
  /\ json_files = <<>> /\ json_idx = 0 /\ session_id = NoneV
  /\ existing_file_names_exact = {} /\ existing_file_names_normalized = <<>>
  /\ next_row_number = 0 /\ successful_syncs = 0 /\ skipped_files = 0
  /\ requests_sent = <<>>

\* lines 82-97: the document is open, its spans are collected
InitAnnotate ==
  /\ pc = "annotate"
  /\ is_fine_tuned = FALSE
  /\ input_pdf_path = <<>> /\ output_pdf_path = NoneV /\ validation_mode = FALSE
  /\ template = EmptyTemplate /\ alternative_names = NoneV /\ extraction_rules = NoneV
  /\ filename_fields = <<>> /\ gpt_template = EmptyTemplate
  /\ gpt_alternative_names = NoneV /\ gpt_extraction_rules = NoneV
  /\ text_content = <<>> /\ coordinate_embedded_text = <<>>
  /\ messages = NoneV /\ content = NoneV /\ response_data = NoneV /\ gpt_analysis = NoneV
  /\ json_artifact = NoneV /\ annotated_pdf = NoneV
  /\ calls = <<>>
  /\ error = NoneV
  /\ span = NoneV /\ marker = NoneV /\ decoded = NoneV
  /\ UnitsIdle
  /\ AnnotateOnly
  /\ positions = Some(DocSpans)
  /\ extracted_fields \in AnnotFieldLists
  /\ field_idx = 0
  /\ annotations = <<>> /\ warnings = <<>>

\* one pass of the loop of lines 99-134
AnnotateField ==
  /\ pc = "annotate"
  /\ field_idx < Len(extracted_fields)
  /\ LET pass == AnnotateOneField(positions.v, extracted_fields[field_idx + 1], field_idx + 1)
     IN /\ annotations' = annotations \o pass.drawn
        /\ warnings' = warnings \o pass.warned
  /\ field_idx' = field_idx + 1
  /\ UNCHANGED <<pc, is_fine_tuned, args, schema, filtered, texts, analysis, extracted_fields,
                 outputs, calls, error, markers, units, batch, parallel, retrying, syncing>>

\* lines 136-139: the document is saved and closed
SaveAnnotated ==
  /\ pc = "annotate"
  /\ field_idx = Len(extracted_fields)
  /\ annotated_pdf' = Some(annotations)
  /\ pc' = "saved"
  /\ UNCHANGED <<is_fine_tuned, args, schema, filtered, texts, analysis, field_idx,
                 extracted_fields, json_artifact, calls, error, markers, units, drivers>>

NextAnnotate ==
  \/ AnnotateField
  \/ SaveAnnotated

SpecAnnotate == InitAnnotate /\ [][NextAnnotate]_vars

(***************************************************************************)
(* retry_on_timeout: one call of a wrapped function.  The decorator of     *)
(* sync_to_onedrive.py and that of sharepoint_schema_builder.py differ in  *)
(* how they log only.                                                      *)
(***************************************************************************)
\* largest max_retries a function is wrapped with
MaxRetriesBound == 3

\* the default of timeout_codes
TimeoutCodes == {504, 502, 503}
BackoffFactor == 2

\* what one invocation of the wrapped function does: it returns, or raises
\* requests.exceptions.HTTPError with a response status, requests.exceptions.Timeout, or
\* an exception of neither class
Returns(v) == [kind |-> "return", value |-> v, status |-> 0]
Raises(kind, status) == [kind |-> kind, value |-> "", status |-> status]
WrappedOutcomes ==
  {Returns("value"), Raises("Timeout", 0), Raises("ConnectionError", 0), Raises("ValueError", 0)}
    \cup {Raises("HTTPError", s) : s \in {404, 500, 502, 503, 504}}

\* mutant: every HTTP error is retried
RetriesAnyHttpError(outcome, tries, most) ==
  outcome.kind \in {"HTTPError", "Timeout"} /\ tries < most

\* lines 20-35: whether the handlers sleep and continue
RetriesAfter(outcome, tries, most) ==
  \/ outcome.kind = "HTTPError" /\ outcome.status \in TimeoutCodes /\ tries < most
  \/ outcome.kind = "Timeout" /\ tries < most

\* the drivers but the wrapper
RetryOnly ==
  /\ pdf_files = <<>> /\ file_idx = 0 /\ processed = <<>> /\ logged = <<>> /\ exit_code = NoneV
  /\ openai_api_key = NoneV /\ workers = <<>>
  /\ annotations = <<>> /\ warnings = <<>>
  /\ json_files = <<>> /\ json_idx = 0 /\ session_id = NoneV
  /\ existing_file_names_exact = {} /\ existing_file_names_normalized = <<>>
  /\ next_row_number = 0 /\ successful_syncs = 0 /\ skipped_files = 0
  /\ requests_sent = <<>>

\* the wrapper is entered
InitRetry ==
  /\ pc = "wrapper"
  /\ CoreIdle
  /\ RetryOnly
  /\ max_retries \in 0..MaxRetriesBound
  /\ attempt = 0 /\ attempts = <<>> /\ returned = NoneV

\* the loop of lines 17-36.  One pass invokes the function: the wrapper returns its
\* value, or sleeps and continues, or lets the exception through.  When the range is
\* used up, line 36 returns None.
Wrapper ==
  /\ pc = "wrapper"
  /\ IF attempt > max_retries
     THEN /\ returned' = Some([kind |-> "none", outcome |-> Returns("None")])
          /\ pc' = "left"
          /\ UNCHANGED <<attempt, attempts>>
     ELSE \E outcome \in WrappedOutcomes :
            /\ attempts' = Append(attempts,
                                  [outcome |-> outcome,
                                   slept |-> IF RetriesAfter(outcome, attempt, max_retries)
                                             THEN Some(BackoffFactor ^ attempt) ELSE NoneV])
            /\ IF outcome.kind = "return"
               THEN /\ returned' = Some([kind |-> "return", outcome |-> outcome])
                    /\ pc' = "left"
                    /\ UNCHANGED attempt
               ELSE IF RetriesAfter(outcome, attempt, max_retries)
               THEN /\ attempt' = attempt + 1
                    /\ UNCHANGED <<pc, returned>>
               ELSE /\ returned' = Some([kind |-> "raise", outcome |-> outcome])
                    /\ pc' = "left"
                    /\ UNCHANGED attempt
  /\ UNCHANGED <<core, batch, parallel, annotating, max_retries, syncing>>

NextRetry == Wrapper

\* the wrapper runs on: the wrapped function and the sleep come back
SpecRetry == InitRetry /\ [][NextRetry]_vars /\ WF_vars(NextRetry)

(***************************************************************************)
(* sync_to_onedrive.process_json_files.                                    *)
(***************************************************************************)
\* most JSON files in the input folder
MaxJsonFiles == 2

FileNameHeader == <<"F", "I", "L", "E", " ", "N", "A", "M", "E">>

\* a cell of usedRange's values: a string or a number
StrCell(s) == [t |-> "str", s |-> s, n |-> 0]
NumCell(n) == [t |-> "num", s |-> <<>>, n |-> n]
\* bool(cell) and str(cell)
CellTruthy(cell) == IF cell.t = "num" THEN cell.n # 0 ELSE cell.s # <<>>
PyStr(cell) == IF cell.t = "num" THEN DigitsOfNat(cell.n) ELSE cell.s

\* ' '.join(s.split())
RECURSIVE CollapseSpaces(_)
CollapseSpaces(s) ==
  IF s = <<>> THEN <<>>
  ELSE IF IsSpace(Head(s)) /\ Tail(s) # <<>> /\ IsSpace(Head(Tail(s))) THEN CollapseSpaces(Tail(s))
  ELSE <<Head(s)>> \o CollapseSpaces(Tail(s))
JoinSplit(s) == CollapseSpaces(Strip(s))

EndsWith(s, suffix) ==
  Len(s) >= Len(suffix) /\ SubSeq(s, Len(s) - Len(suffix) + 1, Len(s)) = suffix

\* line 209
ComparisonPunctuation ==
  {",", ".", "!", "?", ";", ":", "-", "_", "(", ")", "[", "]", "{", "}", "'", "\""}

\* normalize_for_comparison
NormalizeForComparison(filename) ==
  LET lowered == Lower(filename)
      spaced == [i \in 1..Len(lowered) |->
                   IF lowered[i] \in ComparisonPunctuation THEN " " ELSE lowered[i]]
      normalized == JoinSplit(spaced)
  IN IF EndsWith(normalized, <<" ", "p", "d", "f">>)
     THEN Strip(SubSeq(normalized, 1, Len(normalized) - 4))
     ELSE normalized

\* format_value of a string
FormatValue(text) ==
  LET NotMoney(c) == c \notin {"$", ","}
      stripped == Strip(SelectSeq(text, NotMoney))
      run_end == CoordRunEnd(stripped, 2)
  IN IF /\ stripped # <<>> /\ stripped[1] = "("
        /\ run_end >= 2 /\ run_end < Len(stripped) /\ stripped[run_end + 1] = ")"
     THEN <<"-">> \o SubSeq(stripped, 2, run_end)
     ELSE stripped

\* headers.index(name), 0 when index raises ValueError
HeaderIndex(headers, name) ==
  LET hits == {i \in 1..Len(headers) : headers[i] = StrCell(name)}
  IN IF hits = {} THEN 0 ELSE CHOOSE i \in hits : \A j \in hits : i <= j

\* lines 334-361: the row of a file.  A field whose key is a header is put in its column,
\* the FILE NAME column included
RECURSIVE FillRow(_, _, _)
FillRow(row_values, headers, fields) ==
  IF fields = <<>> THEN row_values
  ELSE LET key == Head(fields).key
           val == Head(fields).value
       IN FillRow(IF key # <<>> /\ ~IsNone(val) /\ HeaderIndex(headers, key) > 0
                  THEN [row_values EXCEPT ![HeaderIndex(headers, key)] = Some(FormatValue(val.v))]
                  ELSE row_values,
                  headers, Tail(fields))
RowValues(headers, json_filename, fields) ==
  LET empty == [i \in 1..Len(headers) |->
                  IF i = HeaderIndex(headers, FileNameHeader) THEN Some(json_filename) ELSE NoneV]
      filled == FillRow(empty, headers, fields)
  IN [i \in 1..Len(filled) |-> IF IsNone(filled[i]) THEN <<>> ELSE filled[i].v]

\* lines 282-291: the names of the data rows, exact and normalized
RECURSIVE ExistingFileNames(_, _, _)
ExistingFileNames(rows, file_name_index, found) ==
  IF rows = <<>> THEN found
  ELSE LET row == Head(rows)
           file_name == Strip(PyStr(row[file_name_index]))
       IN ExistingFileNames(Tail(rows), file_name_index,
            IF Len(row) >= file_name_index /\ CellTruthy(row[file_name_index])
               /\ file_name # <<>>
            THEN [exact |-> found.exact \cup {file_name},
                  normalized |-> DictSet(found.normalized, NormalizeForComparison(file_name),
                                         file_name)]
            ELSE found)

\* mutant: new rows start right below the schema rows
NextRowBelowSchema(rows) == 4

\* line 296
NextRowNumber(rows) == IF Len(rows) + 1 > 4 THEN Len(rows) + 1 ELSE 4

\* lines 316-324
FileAlreadyInExcel(json_filename, exact, normalized) ==
  \/ json_filename \in exact
  \/ DictHas(normalized, NormalizeForComparison(json_filename))

\* mutant: the session is closed only when nothing was raised
ClosesSessionUnlessRaised(session, raised) ==
  ~IsNone(session) /\ session.v # <<>> /\ IsNone(raised)

\* line 381: if session_id
ClosesSession(session, raised) == ~IsNone(session) /\ session.v # <<>>

\* the JSON files: the stem, whether json.load succeeds, the fields of the document
JsonStems == { <<"a", "b">>, <<"a", ",", "b">>, <<"A", ".", "B">>, <<"0">> }
FileNameEntry(stem) == [key |-> FileNameHeader, value |-> Some(stem)]
TotalEntry == [key |-> KeyTotal, value |-> Some(<<"$", "(", "1", ",", "5", ")">>)]
NullEntry == [key |-> KeyDate, value |-> NoneV]
JsonFile(stem, loads, fields) == [stem |-> stem, loads |-> loads, fields |-> fields]
JsonFiles ==
  {JsonFile(s, FALSE, <<>>) : s \in JsonStems}
    \cup {JsonFile(s, TRUE, <<>>) : s \in JsonStems}
    \cup {JsonFile(s, TRUE, <<TotalEntry, NullEntry, FileNameEntry(s)>>) : s \in JsonStems}
JsonFileLists == UNION {[1..n -> JsonFiles] : n \in 0..MaxJsonFiles}

\* the worksheets: the three schema rows and the data rows
SheetHeaders == { <<StrCell(FileNameHeader), StrCell(KeyTotal)>>,
                  <<StrCell(KeyTotal), StrCell(KeyDate)>> }
SheetNames == { <<>>,
                <<StrCell(<<"a", "b">>)>>,
                <<StrCell(<<" ", "A", ".", "B", " ">>), StrCell(<<>>)>>,
                <<NumCell(0)>> }
DataRow(headers, name) ==
  [i \in 1..Len(headers) |->
     IF i = HeaderIndex(headers, FileNameHeader) \/ (HeaderIndex(headers, FileNameHeader) = 0 /\ i = 1)
     THEN name ELSE StrCell(<<>>)]
SheetOf(headers, names) ==
  << <<StrCell(LabelAlternativeNames), StrCell(<<>>)>>,
     <<StrCell(LabelExtractionRules), StrCell(<<>>)>>,
     headers >> \o [i \in 1..Len(names) |-> DataRow(headers, names[i])]
Sheets ==
  { << <<StrCell(LabelAlternativeNames)>>, <<StrCell(LabelExtractionRules)>> >> }
    \cup {SheetOf(h, names) : h \in SheetHeaders, names \in SheetNames}

\* a workbook request and whether it succeeded; a row is written for the file of that
\* place in the list, at that row number, with these cells
Request(op, ok, file, row, cells) ==
  [op |-> op, ok |-> ok, file |-> file, row |-> row, values |-> cells]

\* the drivers but the sync
SyncOnly ==
  /\ pdf_files = <<>> /\ file_idx = 0 /\ processed = <<>> /\ logged = <<>> /\ exit_code = NoneV
  /\ openai_api_key = NoneV /\ workers = <<>>
  /\ annotations = <<>> /\ warnings = <<>>
  /\ max_retries = 0 /\ attempt = 0 /\ attempts = <<>> /\ returned = NoneV

\* what process_json_files leaves alone
SyncFrame ==
  UNCHANGED <<is_fine_tuned, args, schema, filtered, texts, analysis, field_idx, extracted_fields,
              outputs, calls, markers, llm_value, clean_value, clean_again, field_key,
              is_filename, is_filename_upper, batch, parallel, annotating, retrying, json_files>>

\* lines 222-246: the drive and the file are known, the folder is listed
InitSync ==
  /\ pc = "session"
  /\ CoreIdle
  /\ SyncOnly
  /\ json_files \in JsonFileLists
  /\ json_idx = 0 /\ session_id = NoneV
  /\ existing_file_names_exact = {} /\ existing_file_names_normalized = <<>>
  /\ next_row_number = 0 /\ successful_syncs = 0 /\ skipped_files = 0
  /\ requests_sent = <<>>

\* line 249: the session is created
CreateSession ==
  /\ pc = "session"
  /\ session_id' = Some(<<"s", "1">>)
  /\ requests_sent' = Append(requests_sent, Request("createSession", TRUE, 0, 0, <<>>))
  /\ pc' = "worksheet"
  /\ SyncFrame
  /\ UNCHANGED <<error, worksheet_data, json_idx, existing_file_names_exact,
                 existing_file_names_normalized, next_row_number, successful_syncs,
                 skipped_files>>

\* line 249 raises
CreateSessionFails ==
  /\ pc = "session"
  /\ requests_sent' = Append(requests_sent, Request("createSession", FALSE, 0, 0, <<>>))
  /\ error' = Some("HTTPError")
  /\ pc' = "finally"
  /\ SyncFrame
  /\ UNCHANGED <<session_id, worksheet_data, json_idx, existing_file_names_exact,
                 existing_file_names_normalized, next_row_number, successful_syncs,
                 skipped_files>>

\* line 253: the used range is read
GetWorksheetData ==
  /\ pc = "worksheet"
  /\ \E sheet \in Sheets : worksheet_data' = Some([values |-> sheet])
  /\ requests_sent' = Append(requests_sent, Request("usedRange", TRUE, 0, 0, <<>>))
  /\ pc' = "existing"
  /\ SyncFrame
  /\ UNCHANGED <<error, session_id, json_idx, existing_file_names_exact,
                 existing_file_names_normalized, next_row_number, successful_syncs,
                 skipped_files>>

\* line 253 raises
GetWorksheetDataFails ==
  /\ pc = "worksheet"
  /\ requests_sent' = Append(requests_sent, Request("usedRange", FALSE, 0, 0, <<>>))
  /\ error' = Some("HTTPError")
  /\ pc' = "finally"
  /\ SyncFrame
  /\ UNCHANGED <<session_id, worksheet_data, json_idx, existing_file_names_exact,
                 existing_file_names_normalized, next_row_number, successful_syncs,
                 skipped_files>>

\* lines 262-280 raise: fewer than three rows, or data rows without a FILE NAME column
SheetUnusable(rows) ==
  \/ Len(rows) < 3
  \/ Len(rows) > 3 /\ HeaderIndex(rows[3], FileNameHeader) = 0

\* lines 262-296: the existing names and the next row number
ReadExisting ==
  /\ pc = "existing"
  /\ LET rows == worksheet_data.v.values
     IN /\ ~SheetUnusable(rows)
        /\ LET found == IF Len(rows) > 3
                        THEN ExistingFileNames(SubSeq(rows, 4, Len(rows)),
                                               HeaderIndex(rows[3], FileNameHeader),
                                               [exact |-> {}, normalized |-> <<>>])
                        ELSE [exact |-> {}, normalized |-> <<>>]
           IN /\ existing_file_names_exact' = found.exact
              /\ existing_file_names_normalized' = found.normalized
        /\ next_row_number' = NextRowNumber(rows)
  /\ pc' = "loop"
  /\ SyncFrame
  /\ UNCHANGED <<error, session_id, worksheet_data, json_idx, successful_syncs, skipped_files,
                 requests_sent>>

ReadExistingRaises ==
  /\ pc = "existing"
  /\ SheetUnusable(worksheet_data.v.values)
  /\ error' = Some("ValueError")
  /\ pc' = "finally"
  /\ SyncFrame
  /\ UNCHANGED <<session_id, worksheet_data, json_idx, existing_file_names_exact,
                 existing_file_names_normalized, next_row_number, successful_syncs,
                 skipped_files, requests_sent>>

\* the file the loop of line 298 stands at
InLoop == pc = "loop" /\ json_idx < Len(json_files)
JsonFileAt == json_files[json_idx + 1]
Headers == worksheet_data.v.values[3]

\* lines 302-303 raise, lines 376-378 catch
JsonLoadFails ==
  /\ InLoop
  /\ ~JsonFileAt.loads
  /\ json_idx' = json_idx + 1
  /\ SyncFrame
  /\ UNCHANGED <<pc, error, session_id, worksheet_data, existing_file_names_exact,
                 existing_file_names_normalized, next_row_number, successful_syncs,
                 skipped_files, requests_sent>>

\* lines 326-329
SkipDuplicate ==
  /\ InLoop
  /\ JsonFileAt.loads
  /\ FileAlreadyInExcel(JsonFileAt.stem, existing_file_names_exact, existing_file_names_normalized)
  /\ skipped_files' = skipped_files + 1
  /\ json_idx' = json_idx + 1
  /\ SyncFrame
  /\ UNCHANGED <<pc, error, session_id, worksheet_data, existing_file_names_exact,
                 existing_file_names_normalized, next_row_number, successful_syncs,
                 requests_sent>>

\* lines 341-343
NoFileNameColumn ==
  /\ InLoop
  /\ JsonFileAt.loads
  /\ ~FileAlreadyInExcel(JsonFileAt.stem, existing_file_names_exact, existing_file_names_normalized)
  /\ HeaderIndex(Headers, FileNameHeader) = 0
  /\ json_idx' = json_idx + 1
  /\ SyncFrame
  /\ UNCHANGED <<pc, error, session_id, worksheet_data, existing_file_names_exact,
                 existing_file_names_normalized, next_row_number, successful_syncs,
                 skipped_files, requests_sent>>

\* lines 331-374: the row is written
AddWorksheetRow ==
  /\ InLoop
  /\ JsonFileAt.loads
  /\ ~FileAlreadyInExcel(JsonFileAt.stem, existing_file_names_exact, existing_file_names_normalized)
  /\ HeaderIndex(Headers, FileNameHeader) > 0
  /\ requests_sent' = Append(requests_sent,
                             Request("patch", TRUE, json_idx + 1, next_row_number,
                                     RowValues(Headers, JsonFileAt.stem, JsonFileAt.fields)))
  /\ existing_file_names_exact' = existing_file_names_exact \cup {JsonFileAt.stem}
  /\ existing_file_names_normalized' =
       DictSet(existing_file_names_normalized, NormalizeForComparison(JsonFileAt.stem),
               JsonFileAt.stem)
  /\ next_row_number' = next_row_number + 1
  /\ successful_syncs' = successful_syncs + 1
  /\ json_idx' = json_idx + 1
  /\ SyncFrame
  /\ UNCHANGED <<pc, error, session_id, worksheet_data, skipped_files>>

\* line 366 raises, lines 376-378 catch
AddWorksheetRowFails ==
  /\ InLoop
  /\ JsonFileAt.loads
  /\ ~FileAlreadyInExcel(JsonFileAt.stem, existing_file_names_exact, existing_file_names_normalized)
  /\ HeaderIndex(Headers, FileNameHeader) > 0
  /\ requests_sent' = Append(requests_sent,
                             Request("patch", FALSE, json_idx + 1, next_row_number,
                                     RowValues(Headers, JsonFileAt.stem, JsonFileAt.fields)))
  /\ json_idx' = json_idx + 1
  /\ SyncFrame
  /\ UNCHANGED <<pc, error, session_id, worksheet_data, existing_file_names_exact,
                 existing_file_names_normalized, next_row_number, successful_syncs,
                 skipped_files>>

\* the loop of line 298 is over
LoopOver ==
  /\ pc = "loop"
  /\ json_idx = Len(json_files)
  /\ pc' = "finally"
  /\ SyncFrame
  /\ UNCHANGED <<error, worksheet_data, syncing>>

\* lines 380-391: the session is closed if there is one, a failure of the close is
\* printed; then the function returns, or the error goes on
Finally ==
  /\ pc = "finally"
  /\ IF ClosesSession(session_id, error)
     THEN \E ok \in BOOLEAN :
            requests_sent' = Append(requests_sent, Request("closeSession", ok, 0, 0, <<>>))
     ELSE UNCHANGED requests_sent
  /\ pc' = IF IsNone(error) THEN "returned" ELSE "raised"
  /\ SyncFrame
  /\ UNCHANGED <<error, session_id, worksheet_data, json_idx, existing_file_names_exact,
                 existing_file_names_normalized, next_row_number, successful_syncs,
                 skipped_files>>

NextSync ==
  \/ CreateSession
  \/ CreateSessionFails
  \/ GetWorksheetData
  \/ GetWorksheetDataFails
  \/ ReadExisting
  \/ ReadExistingRaises
  \/ JsonLoadFails
  \/ SkipDuplicate
  \/ NoFileNameColumn
  \/ AddWorksheetRow
  \/ AddWorksheetRowFails
  \/ LoopOver
  \/ Finally

SpecSync == InitSync /\ [][NextSync]_vars

(***************************************************************************)
(* Properties.                                                             *)
(***************************************************************************)
\* the extracted-field list is final: line 331 is passed
FinalList == pc \in {"save", "done"}

\* the fields the LLM analysis returned
LlmFields == IF IsNone(gpt_analysis) THEN <<>> ELSE gpt_analysis.v.fields

SchemaKeys == {template.fields[i].key : i \in 1..Len(template.fields)}
CountKey(fields, k) == Cardinality({i \in 1..Len(fields) : fields[i].key = k})

\* C1 as claimed: after a process_pdf run, every schema field for which
\* the LLM analysis returned a value has exactly one entry with its key in
\* the final list, whatever the response holds.
C1_ExactlyOncePerSchemaField ==
  FinalList =>
    \A k \in SchemaKeys : CountKey(LlmFields, k) > 0 => CountKey(extracted_fields, k) = 1

\* C1 as amended: the final list holds one entry per field object the LLM
\* analysis returned: a key has as many entries as the analysis returned
\* objects with it, and one more if it is a filename field of the schema;
\* so no returned field is missing, and a key returned once that is no
\* filename field has exactly one entry.
C1_OneEntryPerReturnedField ==
  FinalList =>
    \A k \in SchemaKeys \cup GptKeys :
      CountKey(extracted_fields, k)
        = CountKey(LlmFields, k) + (IF DictHas(filename_fields, k) THEN 1 ELSE 0)

C1_Witness ==
  /\ FinalList
  /\ Len(LlmFields) >= 2
  /\ \E k \in SchemaKeys : CountKey(LlmFields, k) = 1 /\ CountKey(extracted_fields, k) = 1
  /\ \E i \in 1..Len(extracted_fields) : IsNone(extracted_fields[i].page) /\ extracted_fields[i].value = ValUnmatched

\* C2: every entry of the final list has page and bbox both null or both
\* non-null, on every branch of the reconciliation.
C2_PageAndBboxTogether ==
  FinalList =>
    \A i \in 1..Len(extracted_fields) :
      IsNone(extracted_fields[i].page) <=> IsNone(extracted_fields[i].bbox)

\* a final list with an entry of the coordinate-tagged branch, one of the
\* span-match branch and one of the filename branch
C2_Witness ==
  /\ FinalList
  /\ ~validation_mode /\ ~IsNone(positions) /\ positions.v # <<>>
  /\ LlmFields = <<[key |-> KeyTotal, value |-> ValTagged], [key |-> KeyDate, value |-> ValPlain]>>
  /\ Len(extracted_fields) = 3
  /\ ~IsNone(extracted_fields[1].bbox) /\ ~IsNone(extracted_fields[2].bbox)
  /\ IsNone(extracted_fields[3].bbox)

\* C3: in validation mode every entry of the final list has page = None and
\* bbox = None, whatever the LLM response holds.
C3_ValidationModeHasNoCoordinates ==
  (FinalList /\ validation_mode) =>
    \A i \in 1..Len(extracted_fields) :
      IsNone(extracted_fields[i].page) /\ IsNone(extracted_fields[i].bbox)

\* C4: no field value returned by the LLM aborts the document: the
\* reconciliation loop never leaves process_pdf with an error.
C4_NoFieldValueAborts ==
  ~(pc = "raised" /\ ~IsNone(gpt_analysis) /\ field_idx >= 1)

\* C8: every entry of the final list whose key is a filename field has the
\* input file's base name without extension as value, and no page or bbox.
C8_FilenameEntriesCarryTheStem ==
  FinalList =>
    \A i \in 1..Len(extracted_fields) :
      IsFilenameField(extracted_fields[i].key) =>
        /\ extracted_fields[i].value = Stem(input_pdf_path)
        /\ IsNone(extracted_fields[i].page)
        /\ IsNone(extracted_fields[i].bbox)

\* the keys of the non-filename fields, in order
RECURSIVE NonFilenameKeys(_)
NonFilenameKeys(fields) ==
  IF fields = <<>> THEN <<>>
  ELSE (IF IsFilenameField(Head(fields).key) THEN <<>> ELSE <<Head(fields).key>>)
       \o NonFilenameKeys(Tail(fields))

KeysOf(fields) == [i \in 1..Len(fields) |-> fields[i].key]
ItemsOf(metadata) == IF IsNone(metadata) THEN {} ELSE {metadata.v[i] : i \in 1..Len(metadata.v)}

\* a metadata map as passed on: no filename key, every other entry kept
SentMetadataOk(sent, original) ==
  /\ \A item \in ItemsOf(sent) : ~IsFilenameField(item[1])
  /\ \A item \in ItemsOf(original) : ~IsFilenameField(item[1]) => item \in ItemsOf(sent)
  /\ ItemsOf(sent) \subseteq ItemsOf(original)

\* the field keys a prompt names
PromptKeysOk(msgs, keys) ==
  /\ ~IsNone(msgs.required_fields) => msgs.required_fields.v = keys
  /\ ~IsNone(msgs.field_details) => KeysOf(msgs.field_details.v) = keys
  /\ ~IsNone(msgs.required_fields) \/ ~IsNone(msgs.field_details)

\* C9: the field list, the alternative-name map and the extraction-rule map
\* passed to analyze_document hold no filename key; the field list (and
\* the keys the prompt names, under either strategy) is every non-filename
\* schema field in schema order, and the maps keep the entry of every
\* non-filename field.
C9_OnlyNonFilenameFieldsSent ==
  ~IsNone(messages) =>
    /\ KeysOf(gpt_template.fields) = NonFilenameKeys(template.fields)
    /\ \A i \in 1..Len(gpt_template.fields) : ~IsFilenameField(gpt_template.fields[i].key)
    /\ SentMetadataOk(gpt_alternative_names, alternative_names)
    /\ SentMetadataOk(gpt_extraction_rules, extraction_rules)
    /\ PromptKeysOk(messages.v, NonFilenameKeys(template.fields))

\* an LLM call for a schema with a filename field that has metadata
C9_Witness ==
  /\ ~IsNone(messages)
  /\ KeyFileName \in SchemaKeys
  /\ <<KeyFileName, <<"D", "o", "c">>>> \in ItemsOf(alternative_names)
  /\ KeysOf(gpt_template.fields) = <<KeyTotal, KeyDate>>
  /\ ItemsOf(gpt_alternative_names) = {<<KeyTotal, <<"S", "u", "m">>>>}
  /\ IsNone(gpt_extraction_rules)

\* an object of the {key, value} shape: a dict with a string under "key"
\* and a string under "value"
MatchesShape(item) ==
  /\ item.t = "obj"
  /\ \E i \in 1..Len(item.items) : item.items[i].name = StrKey /\ item.items[i].val.t = "str"
  /\ \E i \in 1..Len(item.items) : item.items[i].name = StrValue /\ item.items[i].val.t = "str"

\* the {key, value} pairs of the objects of that shape, in order
ShapedFields(items) ==
  LET kept == SelectSeq(items, MatchesShape)
  IN [i \in 1..Len(kept) |-> [key |-> JGet(kept[i], StrKey).s, value |-> JGet(kept[i], StrValue).s]]

\* the fields a parsed response object lists
ListedFields(obj) ==
  IF obj.t = "obj" /\ JHas(obj, StrFields) /\ JGet(obj, StrFields).t = "arr"
  THEN ShapedFields(JGet(obj, StrFields).items) ELSE <<>>

\* neither the completion nor its span from the first "{" to the last "}"
\* is JSON
NoUsableJson(c) ==
  /\ ~JsonLoads(c).ok
  /\ IsNone(JsonMatch(c)) \/ ~JsonLoads(JsonMatch(c).v).ok

\* C5: analyze_document never raises because of the completion: it returns
\* a DocumentAnalysis, with an empty field list when neither the direct
\* parse nor the regex recovery yields a JSON object.
C5_AlwaysReturnsAnAnalysis ==
  pc \in {"returned", "raised"} =>
    /\ pc = "returned"
    /\ ~IsNone(gpt_analysis)
    /\ NoUsableJson(content.v) => gpt_analysis.v.fields = <<>>

\* C6 as claimed: a completion that is no JSON as a whole but holds a JSON
\* object in surrounding text yields the fields of the first balanced
\* {...} span, also when braces follow that span.
C6_RecoversFirstBalancedSpan ==
  (/\ pc = "returned"
   /\ ~JsonLoads(content.v).ok
   /\ ~IsNone(FirstBalancedSpan(content.v))
   /\ JsonLoads(FirstBalancedSpan(content.v).v).ok)
  => gpt_analysis.v.fields = ListedFields(JsonLoads(FirstBalancedSpan(content.v).v).val)

\* the tokens from the first "{" to the last "}" (empty: no such span)
GreedySpan(toks) ==
  LET braces == {i \in 1..Len(toks) : toks[i].k = "{"}
      lo == CHOOSE i \in braces : \A j \in braces : i <= j
      ends == {i \in 1..Len(toks) : toks[i].k = "}"}
      hi == CHOOSE i \in ends : \A j \in ends : j <= i
  IN IF braces = {} \/ ends = {} THEN <<>>
     ELSE IF hi < lo THEN <<>> ELSE SubSeq(toks, lo, hi)

\* the span is a JSON object that lists its fields
ListsFields(toks) ==
  /\ toks # <<>>
  /\ JsonLoads(toks).ok
  /\ JHas(JsonLoads(toks).val, StrFields)
  /\ JGet(JsonLoads(toks).val, StrFields).t = "arr"

\* C6 as amended: for a completion that is no JSON as a whole,
\* analyze_document returns the fields of the span from the first "{" to
\* the last "}" when that span is a JSON object with a 'fields' list, and
\* returns no field when that span is missing or is no JSON: an embedded
\* object is recovered when no "}" follows it, and lost when braces follow.
C6_RecoversGreedySpan ==
  (pc \in {"returned", "raised"} /\ ~JsonLoads(content.v).ok)
  => /\ ListsFields(GreedySpan(content.v))
          => /\ pc = "returned"
             /\ gpt_analysis.v.fields = ListedFields(JsonLoads(GreedySpan(content.v)).val)
     /\ (GreedySpan(content.v) = <<>> \/ ~JsonLoads(GreedySpan(content.v)).ok)
          => /\ pc = "returned"
             /\ gpt_analysis.v.fields = <<>>

\* fields recovered from an object between prose
C6_Witness ==
  /\ pc = "returned"
  /\ ~JsonLoads(content.v).ok
  /\ ListsFields(GreedySpan(content.v))
  /\ content.v[1].k = "text" /\ content.v[Len(content.v)].k = "text"
  /\ Len(gpt_analysis.v.fields) = 2

\* C7: for a parsed response whose 'fields' is a list, the returned field
\* list is the objects of the {key, value} shape, in order: an object that
\* fails validation is dropped alone.
C7_KeepsTheValidFieldsInOrder ==
  (/\ pc = "returned"
   /\ JHas(response_data.v, StrFields)
   /\ JGet(response_data.v, StrFields).t = "arr")
  => gpt_analysis.v.fields = ShapedFields(JGet(response_data.v, StrFields).items)

\* a list with a field that fails between two that validate
C7_Witness ==
  /\ pc = "returned"
  /\ JHas(response_data.v, StrFields)
  /\ JGet(response_data.v, StrFields).t = "arr"
  /\ Len(JGet(response_data.v, StrFields).items) = 3
  /\ ~MatchesShape(JGet(response_data.v, StrFields).items[2])
  /\ gpt_analysis.v.fields = <<[key |-> <<"a">>, value |-> <<"b">>], [key |-> <<"c">>, value |-> <<"d">>]>>

\* what decoding the marker of the span should give: its page and its
\* bbox rounded to one decimal
SpanPosition(pos) ==
  [kind |-> "coords", page |-> pos.page,
   bbox |-> <<Round1(pos.bbox[1]), Round1(pos.bbox[2]), Round1(pos.bbox[3]), Round1(pos.bbox[4])>>]

\* C10 as claimed: decoding the marker emitted for a span with non-blank
\* text gives the span's page and rounded bbox, whatever the text holds.
C10_RoundTripForAnyText ==
  pc = "decoded" => decoded.v = SpanPosition(span.v)

\* C10 as amended: the same for a span whose text holds no coordinate
\* marker of its own and whose bbox coordinates are not negative.
C10_RoundTrip ==
  (/\ pc = "decoded"
   /\ ~CoordSearch(span.v.text).ok
   /\ \A i \in 1..4 : span.v.bbox[i].m >= 0)
  => decoded.v = SpanPosition(span.v)

\* a span on a two-digit page with brackets in its text and a coordinate
\* that rounds
C10_Witness ==
  /\ pc = "decoded"
  /\ span.v.page >= 10
  /\ span.v.text = <<"[", "x", "]">>
  /\ span.v.bbox[1] = Dec(1234, 2) /\ span.v.bbox[2] = Dec(0, 0)
  /\ span.v.bbox[4] = Dec(99996, 2)
  /\ decoded.v.kind = "coords"
  /\ decoded.v.bbox = <<Dec(123, 1), Dec(0, 0), Dec(501, 1), Dec(1000, 0)>>

\* the positions of character c in s
PositionsOf(s, c) == {i \in 1..Len(s) : s[i] = c}

\* t is written '<@page:x0,y0,x1,y1>': digits for the page, digits and dots
\* for each coordinate, none of them empty
IsMarkerText(t) ==
  /\ Len(t) >= 12
  /\ t[1] = "<" /\ t[2] = "@" /\ t[Len(t)] = ">"
  /\ LET body == SubSeq(t, 3, Len(t) - 1)
         colons == PositionsOf(body, ":")
         commas == PositionsOf(body, ",")
         seps == colons \cup commas \cup {0, Len(body) + 1}
     IN /\ Cardinality(colons) = 1 /\ Cardinality(commas) = 3
        /\ \A a \in colons, b \in commas : a < b
        /\ \A a \in seps : a + 1 \notin seps
        /\ \A i \in 1..Len(body) :
             \/ i \in seps
             \/ IsDigit(body[i])
             \/ body[i] = "." /\ \E a \in colons : a < i

\* the markers of the value, as <<first index, last index>>
MarkerSpans(s) ==
  {ij \in (1..Len(s)) \X (1..Len(s)) :
     /\ s[ij[1]] = "<" /\ s[ij[2]] = ">"
     /\ ij[1] < ij[2]
     /\ IsMarkerText(SubSeq(s, ij[1], ij[2]))}
LeftmostMarker(s) == CHOOSE ij \in MarkerSpans(s) : \A kl \in MarkerSpans(s) : ij[1] <= kl[1]

\* the k-th of the fields a marker text holds between its ":" and ","
MarkerField(t, k) ==
  LET body == SubSeq(t, 3, Len(t) - 1)
      seps == PositionsOf(body, ":") \cup PositionsOf(body, ",") \cup {0, Len(body) + 1}
      Before(i) == Cardinality({a \in seps : 0 < a /\ a < i})
  IN SelectSeq([i \in 1..Len(body) |-> IF Before(i) = k /\ i \notin seps THEN body[i] ELSE ""],
               LAMBDA c : c # "")

\* C11: cleaning a cleaned value changes nothing:
\* _clean_value_from_coordinates(_clean_value_from_coordinates(v)) equals
\* _clean_value_from_coordinates(v) for every string v.
C11_CleanValueIdempotent ==
  pc = "cleaned_again" => clean_again.v = clean_value.v

\* the value without its leftmost marker and without the "[" and "]" around
\* the text the marker follows
MarkedTextUnwrapped(s) ==
  LET m == LeftmostMarker(s)
      open == CHOOSE i \in PositionsOf(s, "[") :
                i < m[1] - 1 /\ \A j \in PositionsOf(s, "[") : j < m[1] - 1 => j <= i
  IN SubSeq(s, 1, open - 1) \o SubSeq(s, open + 1, m[1] - 2) \o SubSeq(s, m[2] + 1, Len(s))

\* the marker follows a bracketed text directly: '...[text]<@...>...'
FollowsBracketedText(s) ==
  /\ MarkerSpans(s) # {}
  /\ LeftmostMarker(s)[1] >= 3
  /\ s[LeftmostMarker(s)[1] - 1] = "]"
  /\ \E i \in PositionsOf(s, "[") : i < LeftmostMarker(s)[1] - 1

\* C12: for a value that contains a coordinate marker, the clean value
\* holds no coordinate marker, and when the marker follows a bracketed text
\* anywhere in the value (and is the only marker) the clean value is the
\* value without the marker and without those brackets.
C12_CleanValueIsUnmarkedText ==
  (pc \in {"cleaned", "cleaned_again"} /\ decoded.v.kind = "coords")
  => /\ MarkerSpans(clean_value.v) = {}
     /\ (FollowsBracketedText(llm_value.v) /\ Cardinality(MarkerSpans(llm_value.v)) = 1)
          => Strip(clean_value.v) = Strip(MarkedTextUnwrapped(llm_value.v))

\* C13: _parse_coordinate_from_response returns the page and the four
\* coordinates of the leftmost marker of the value, and None exactly when
\* the value holds no marker.
C13_ParsesLeftmostMarker ==
  pc = "parsed"
  => IF MarkerSpans(llm_value.v) = {}
     THEN decoded.v.kind = "none"
     ELSE LET m == LeftmostMarker(llm_value.v)
              t == SubSeq(llm_value.v, m[1], m[2])
          IN /\ decoded.v.kind = "coords"
             /\ decoded.v.page = IntOfDigits(MarkerField(t, 0))
             /\ decoded.v.bbox = <<FloatOf(MarkerField(t, 1)), FloatOf(MarkerField(t, 2)),
                                   FloatOf(MarkerField(t, 3)), FloatOf(MarkerField(t, 4))>>

\* the spans of the document (none in validation mode)
SpansOf == IF IsNone(positions) THEN <<>> ELSE positions.v

\* the loop of process_pdf has appended the entry of the i-th LLM field
Reconciled(i) ==
  /\ pc \in {"reconcile", "add_filename_fields", "save", "done", "raised"}
  /\ i \in 1..Len(LlmFields)
  /\ i <= Len(extracted_fields)
  /\ i < field_idx

\* the text of span k contains the value and no earlier span's text does
LowestSpanWith(k, v) ==
  /\ k \in 1..Len(SpansOf)
  /\ \E a \in 1..(Len(SpansOf[k].text) + 1) :
       a + Len(v) - 1 <= Len(SpansOf[k].text)
       /\ \A b \in 1..Len(v) : SpansOf[k].text[a + b - 1] = v[b]
  /\ \A j \in 1..(k - 1) :
       ~\E a \in 1..(Len(SpansOf[j].text) + 1) :
          a + Len(v) - 1 <= Len(SpansOf[j].text)
          /\ \A b \in 1..Len(v) : SpansOf[j].text[a + b - 1] = v[b]

\* C14: outside validation mode a value without a marker is emitted with
\* the page and bbox of the lowest-index span whose text contains it, also
\* when a later span's text equals the value.
C14_FirstContainingSpanWins ==
  \A i \in 1..Len(LlmFields) : \A k \in 1..Len(SpansOf) :
    (/\ Reconciled(i)
     /\ ~validation_mode
     /\ MarkerSpans(LlmFields[i].value) = {}
     /\ LowestSpanWith(k, LlmFields[i].value))
    => extracted_fields[i]
         = [key |-> LlmFields[i].key, value |-> LlmFields[i].value,
            page |-> Some(SpansOf[k].page), bbox |-> Some(SpansOf[k].bbox)]

\* the value "42" takes the position of the span "Total 42" although the
\* next span's text is "42"
C14_Witness ==
  /\ FinalList /\ ~validation_mode
  /\ Len(SpansOf) = 2 /\ SpansOf[2].text = ValPlain /\ SpansOf[1].text # ValPlain
  /\ LlmFields # <<>> /\ LlmFields[1].value = ValPlain
  /\ LowestSpanWith(1, ValPlain)
  /\ extracted_fields[1].page = Some(SpansOf[1].page)
  /\ extracted_fields[1].bbox = Some(SpansOf[1].bbox)
  /\ SpansOf[1].bbox # SpansOf[2].bbox

\* C15: a value without a marker that no span's text contains (the span
\* list may be empty) is emitted once, unchanged, with page and bbox None,
\* and the fields after it are processed: the final list holds one entry
\* per LLM field before the filename entries.
C15_UnmatchedValueKeptWithoutPosition ==
  /\ \A i \in 1..Len(LlmFields) :
       (/\ Reconciled(i)
        /\ MarkerSpans(LlmFields[i].value) = {}
        /\ \A k \in 1..Len(SpansOf) : ~LowestSpanWith(k, LlmFields[i].value))
       => extracted_fields[i]
            = [key |-> LlmFields[i].key, value |-> LlmFields[i].value,
               page |-> NoneV, bbox |-> NoneV]
  /\ FinalList => Len(extracted_fields) = Len(LlmFields) + Len(filename_fields)

\* an unmatched value first, then a value found in a span
C15_Witness ==
  /\ FinalList /\ ~validation_mode /\ SpansOf # <<>>
  /\ Len(LlmFields) = 2
  /\ LlmFields[1].value = ValUnmatched /\ LlmFields[2].value = ValPlain
  /\ extracted_fields[1] = [key |-> LlmFields[1].key, value |-> ValUnmatched,
                            page |-> NoneV, bbox |-> NoneV]
  /\ ~IsNone(extracted_fields[2].page)

\* the five substrings, written out
FilenameSubstrings ==
  { <<"f", "i", "l", "e", "n", "a", "m", "e">>, <<"f", "i", "l", "e", "_", "n", "a", "m", "e">>, <<"f", "i", "l", "e", " ", "n", "a", "m", "e">>, <<"d", "o", "c", "u", "m", "e", "n", "t", "_", "n", "a", "m", "e">>, <<"d", "o", "c", "u", "m", "e", "n", "t", " ", "n", "a", "m", "e">> }

\* the lowercased key contains one of the five substrings
LowercasedKeyHasSubstring(key) ==
  \E w \in FilenameSubstrings : \E a \in 1..(Len(key) + 1) :
    /\ a + Len(w) - 1 <= Len(key)
    /\ \A b \in 1..Len(w) : LowerChar(key[a + b - 1]) = w[b]

\* every character of the key is an ASCII letter, a space or an underscore
IsAsciiKey(key) ==
  \A i \in 1..Len(key) :
    InTab(key[i], UpperChars) \/ InTab(key[i], LowerChars) \/ key[i] \in {" ", "_"}

\* C16 as claimed: _is_filename_field(key) is true iff the lowercased key
\* contains one of the five substrings, and it equals
\* _is_filename_field(key.upper()) for every key.
C16_SameForUpperCasedKey ==
  pc = "checked_upper"
  => /\ is_filename.v <=> LowercasedKeyHasSubstring(field_key.v)
     /\ is_filename_upper.v = is_filename.v

\* C16 as amended: _is_filename_field(key) is true iff the lowercased key
\* contains one of the five substrings, and it equals
\* _is_filename_field(key.upper()) for every key of ASCII characters.
C16_SameForUpperCasedAsciiKey ==
  pc = "checked_upper"
  => /\ is_filename.v <=> LowercasedKeyHasSubstring(field_key.v)
     /\ IsAsciiKey(field_key.v) => is_filename_upper.v = is_filename.v

\* a key of mixed case that is a filename field, as is its upper case
C16_Witness ==
  /\ pc = "checked_upper"
  /\ field_key.v = <<"F", "i", "l", "e", "_">> \o <<"N", "A", "M", "E">>
  /\ is_filename.v /\ is_filename_upper.v

\* the rows the tabular source returned (none without 'values')
SourceRows ==
  IF ~IsNone(worksheet_data) /\ worksheet_data.v.kind = "values"
  THEN worksheet_data.v.values ELSE <<>>

\* build_extraction_schema has returned or raised
BuilderLeft == pc \in {"schema_built", "raised"} /\ ~IsNone(worksheet_data)

\* C17: build_extraction_schema fails with an error and returns no schema
\* whenever the source returns fewer than 3 rows, or no 'values' at all.
C17_FewerThanThreeRowsFails ==
  (BuilderLeft /\ Len(SourceRows) < 3)
  => /\ pc = "raised" /\ ~IsNone(error)
     /\ template = EmptyTemplate /\ IsNone(alternative_names) /\ IsNone(extraction_rules)

\* a sheet of two rows was refused
C17_Witness ==
  /\ pc = "raised" /\ error = Some("ValueError")
  /\ ~IsNone(worksheet_data) /\ worksheet_data.v.kind = "values"
  /\ Len(SourceRows) = 2

\* the cell is empty or white space
IsBlankCell(cell) == \A i \in 1..Len(cell) : cell[i] = " "

\* the columns of row 2 whose cell is not blank, in column order
HeaderColumns ==
  SelectSeq([i \in 1..Len(SourceRows[3]) |-> i], LAMBDA i : ~IsBlankCell(SourceRows[3][i]))

\* C18: build_extraction_schema fails with an error whenever the header
\* row of a grid of at least 3 rows has no non-empty cell, and never
\* returns a schema with an empty field list.
C18_NoHeaderCellFails ==
  /\ (BuilderLeft /\ Len(SourceRows) >= 3 /\ \A i \in 1..Len(SourceRows[3]) : SourceRows[3][i] = <<>>)
       => pc = "raised" /\ ~IsNone(error)
  /\ pc = "schema_built" => template.fields # <<>>

\* the cell of the column in the row exists, is not empty and is not the
\* row's label
IsMetadataCell(row, i, label) == i <= Len(row) /\ row[i] # <<>> /\ row[i] # label

\* the map holds for the column's header the column's cell of the row iff
\* that cell is a metadata cell
ColumnMetadataAsClaimed(map, row, i, label) ==
  LET key == Strip(SourceRows[3][i])
  IN IF IsMetadataCell(row, i, label)
     THEN DictHas(map, key) /\ DictGet(map, key) = row[i]
     ELSE ~DictHas(map, key)

\* the texts the map holds
MapValues(map) == {map[i][2] : i \in 1..Len(map)}

FirstLabelColumn(row, label) ==
  IF \E i \in 1..Len(row) : row[i] = label
  THEN CHOOSE i \in 1..Len(row) : row[i] = label /\ \A j \in 1..(i - 1) : row[j] # label
  ELSE 0

\* the header columns with the key whose cell of the row exists, is not
\* empty and is not the first label cell of the row
MetadataColumns(row, label, key) ==
  {i \in 1..Len(SourceRows[3]) :
     /\ ~IsBlankCell(SourceRows[3][i]) /\ Strip(SourceRows[3][i]) = key
     /\ i <= Len(row) /\ row[i] # <<>>
     /\ i # FirstLabelColumn(row, label)}

\* the map holds a key iff one of its columns has metadata, with the cell
\* of the last such column
MapByLastColumn(map, row, label) ==
  \A n \in 1..Len(HeaderColumns) :
    LET key == Strip(SourceRows[3][HeaderColumns[n]])
        cols == MetadataColumns(row, label, key)
    IN IF cols = {} THEN ~DictHas(map, key)
       ELSE /\ DictHas(map, key)
            /\ DictGet(map, key) = row[CHOOSE i \in cols : \A j \in cols : j <= i]

WritingCalls == {"json_dump", "create_annotated_pdf"}

\* C20: when schema construction, text extraction or the LLM call raises
\* during process_pdf, the error reaches the caller and neither the JSON
\* artifact nor the annotated PDF has been written.
C20_NoArtifactAfterFailure ==
  (pc = "raised" /\ ~IsNone(error)
     /\ error.v \in {"SchemaError", "PdfError", "ApiError", "AttributeError", "TypeError"})
  => /\ IsNone(json_artifact) /\ IsNone(annotated_pdf)
     /\ \A i \in 1..Len(calls) : calls[i] \notin WritingCalls

\* the LLM call failed in a run that was to write both artifacts
C20_Witness ==
  /\ pc = "raised" /\ error = Some("ApiError")
  /\ ~validation_mode /\ ~IsNone(output_pdf_path)
  /\ calls[Len(calls)] = "generate_completion"
  /\ IsNone(json_artifact) /\ IsNone(annotated_pdf)

(***************************************************************************)
(* C21..C30                                                                *)
(***************************************************************************)
\* cli.main is over
BatchOver == pc \in {"exited", "completed"}
ProcessedFiles == {processed[i] : i \in 1..Len(processed)}

\* C21: when the batch is over, process_pdf has been called for every PDF of the folder
\* whose outputs did not exist yet, whatever error an earlier PDF raised.
C21_EveryRemainingPdfProcessed ==
  BatchOver =>
    \A i \in 1..Len(pdf_files) : ~pdf_files[i].outputs_exist => i \in ProcessedFiles

\* C22: under every interleaving of two invocations, the LLM request of an invocation
\* carries the api key of that invocation's own extractor.
C22_OwnCredentials ==
  \A w \in 1..Len(workers) :
    ~IsNone(workers[w].used_key) => workers[w].used_key.v = workers[w].api_key

CallsOf(name) == Cardinality({i \in 1..Len(calls) : calls[i] = name})
OutputPathGiven == ~IsNone(output_pdf_path) /\ output_pdf_path.v # <<>>

\* C23: in validation mode extract_text_and_positions is never called, the LLM gets the
\* plain text without the coordinate instructions, and create_annotated_pdf is never
\* called, output path or not.  Out of validation mode create_annotated_pdf is called
\* by a completed run exactly when an output path is given, and then once.
C23_ValidationModeSkipsLayoutAndAnnotation ==
  /\ validation_mode =>
       /\ CallsOf("extract_text_and_positions") = 0
       /\ CallsOf("create_annotated_pdf") = 0
       /\ IsNone(annotated_pdf)
       /\ IsNone(positions)
       /\ ~IsNone(messages) =>
            /\ ~messages.v.coordinate_instructions
            /\ messages.v.document = DocText
            /\ messages.v.document = text_content
  /\ (~validation_mode /\ pc = "done") =>
       CallsOf("create_annotated_pdf") = (IF OutputPathGiven THEN 1 ELSE 0)
  /\ (~validation_mode /\ pc # "done") => CallsOf("create_annotated_pdf") = 0

\* a validation-mode run with an output path has called the LLM and is complete, and so
\* is a run out of validation mode that was given the path
C23_Witness ==
  /\ pc = "done"
  /\ OutputPathGiven
  /\ ~IsNone(messages)
  /\ validation_mode

\* the fields of the list that have a page, and create_annotated_pdf's annotations of a list
WithPage(fields) == LET has_page(f) == ~IsNone(f.page) IN SelectSeq(fields, has_page)
RECURSIVE AnnotationsOf(_, _)
AnnotationsOf(fields, i) ==
  IF i > Len(fields) THEN <<>>
  ELSE AnnotateOneField(DocSpans, fields[i], i).drawn \o AnnotationsOf(fields, i + 1)
\* an annotation without the place its field had in the list
Unplaced(a) == IF a.kind = "highlight" THEN <<a.kind, a.page, a.bbox>>
               ELSE <<a.kind, a.page, a.point, a.text, a.fontsize>>
UnplacedAll(drawn) == [i \in 1..Len(drawn) |-> Unplaced(drawn[i])]

\* C24: create_annotated_pdf never raises; the saved document bears no highlight and no
\* label of a field whose page is null, and bears exactly the annotations the call makes
\* on the list without those fields.
C24_NullPositionFieldsAreSkipped ==
  /\ IsNone(error)
  /\ \A i \in 1..Len(annotations) : ~IsNone(extracted_fields[annotations[i].field].page)
  /\ pc = "saved" =>
       /\ ~IsNone(annotated_pdf)
       /\ UnplacedAll(annotated_pdf.v) = UnplacedAll(AnnotationsOf(WithPage(extracted_fields), 1))

\* a saved document whose list had a field without page, whose value is on the first
\* page, before a field that was annotated
C24_Witness ==
  /\ pc = "saved"
  /\ Len(extracted_fields) = 2
  /\ IsNone(extracted_fields[1].page) /\ extracted_fields[1].value = ValPlain
  /\ \E i \in 1..Len(annotated_pdf.v) : annotated_pdf.v[i].field = 2

\* a completion that is text without any JSON structure
ProseCompletion == <<Tok("text")>>
FilenameKeysOf(fields) ==
  {fields[i].key : i \in {j \in 1..Len(fields) : IsFilenameField(fields[j].key)}}

\* C25: after a completion without any JSON process_pdf does not raise, the analysis has
\* no field, the final list holds one entry per filename field of the schema and nothing
\* else, and the JSON artifact of the completed run has document_type, these fields and
\* text_content.
C25_ProseCompletionLeavesNoLlmEntry ==
  content = Some(ProseCompletion) =>
    /\ pc # "raised" /\ IsNone(error)
    /\ ~IsNone(gpt_analysis) /\ gpt_analysis.v.fields = <<>>
    /\ pc \in {"add_filename_fields", "save", "done"}
    /\ FinalList =>
         /\ Len(extracted_fields) = Cardinality(FilenameKeysOf(template.fields))
         /\ \A i \in 1..Len(extracted_fields) :
              /\ extracted_fields[i].key \in FilenameKeysOf(template.fields)
              /\ extracted_fields[i].value = Stem(input_pdf_path)
              /\ IsNone(extracted_fields[i].page) /\ IsNone(extracted_fields[i].bbox)
    /\ pc = "done" =>
         /\ ~IsNone(json_artifact)
         /\ DOMAIN json_artifact.v = {"document_type", "fields", "text_content"}
         /\ json_artifact.v.document_type = template.document_type
         /\ Len(json_artifact.v.fields) = Len(extracted_fields)
         /\ \A i \in 1..Len(extracted_fields) :
              /\ json_artifact.v.fields[i].key = extracted_fields[i].key
              /\ json_artifact.v.fields[i].value = extracted_fields[i].value
         /\ json_artifact.v.text_content \in {text_content, coordinate_embedded_text}

\* a run is complete whose completion was plain text and whose schema has a filename field
C25_Witness ==
  /\ pc = "done"
  /\ content = Some(ProseCompletion)
  /\ ~IsNone(json_artifact)
  /\ Len(json_artifact.v.fields) = 1

\* a request timeout or an HTTP error with status 502, 503 or 504
IsTimeoutOrGatewayError(outcome) ==
  \/ outcome.kind = "Timeout"
  \/ outcome.kind = "HTTPError" /\ outcome.status \in {502, 503, 504}

\* the wrapped function was invoked at most max_retries + 1 times; an invocation was
\* followed by another one only if it raised a timeout or 502/503/504; once the wrapper
\* is left, it is left with what the last invocation returned or raised
RetryBehaviour ==
  LET n == Len(attempts)
  IN /\ n <= max_retries + 1
     /\ \A i \in 1..n :
          (i < n \/ pc = "wrapper") => IsTimeoutOrGatewayError(attempts[i].outcome)
     /\ pc = "left" =>
          /\ n >= 1
          /\ ~IsNone(returned)
          /\ returned.v.kind \in {"return", "raise"}
          /\ attempts[n].outcome.kind = "return" =>
               returned.v = [kind |-> "return", outcome |-> attempts[n].outcome]
          /\ attempts[n].outcome.kind # "return" =>
               returned.v = [kind |-> "raise", outcome |-> attempts[n].outcome]

\* C26: a call of a function wrapped with max_retries = n invokes it at most n + 1 times,
\* re-invokes it only after a timeout or an HTTP 502/503/504, is left with the return
\* value or the error of the last invocation, never with None, and is left eventually.
C26_BoundedRetry == []RetryBehaviour /\ <>(pc = "left")

\* the wrapper is left with the timeout the last allowed attempt raised, after retries
C26_Witness ==
  /\ pc = "left"
  /\ max_retries >= 1
  /\ Len(attempts) = max_retries + 1
  /\ returned.v.kind = "raise"
  /\ returned.v.outcome.kind = "Timeout"

\* the rows of the sheet as read, the writes requested, and those that succeeded
SheetRows == IF IsNone(worksheet_data) THEN <<>> ELSE worksheet_data.v.values
Patches == {i \in 1..Len(requests_sent) : requests_sent[i].op = "patch"}
RowsAdded == {i \in Patches : requests_sent[i].ok}
FileNameColumn == HeaderIndex(SheetRows[3], FileNameHeader)
\* the FILE NAME cells of the data rows that hold a name, as text
PresentFileNames ==
  {name \in {PyStr(SheetRows[r][FileNameColumn]) : r \in 4..Len(SheetRows)} : Strip(name) # <<>>}
\* the FILE NAME an added row carries
AddedFileName(i) == requests_sent[i].values[FileNameColumn]
SameFileName(a, b) == a = b \/ NormalizeForComparison(a) = NormalizeForComparison(b)

\* no write is requested for a file whose stem is a FILE NAME of the sheet's data rows or
\* the stem of a file added before, exactly or normalized
NoWriteForKnownStem ==
  \A i \in Patches :
    LET stem == json_files[requests_sent[i].file].stem
    IN /\ \A name \in PresentFileNames : ~SameFileName(stem, name)
       /\ \A j \in RowsAdded : j < i => ~SameFileName(stem, json_files[requests_sent[j].file].stem)

\* no two added rows, and no added row and data row of the sheet, carry the same
\* normalized file name
NoTwoRowsOfOneName ==
  \A i \in RowsAdded :
    /\ \A j \in RowsAdded :
         i # j => NormalizeForComparison(AddedFileName(i)) # NormalizeForComparison(AddedFileName(j))
    /\ \A name \in PresentFileNames :
         NormalizeForComparison(AddedFileName(i)) # NormalizeForComparison(name)

\* C27: process_json_files writes no row for a JSON file whose stem matches, exactly or
\* normalized, a FILE NAME of the sheet's data rows or the stem of a file added earlier in
\* the run, and so no two rows it added, and no added row and pre-existing row, have the
\* same normalized file name.
C27_NoDuplicateFileNames == NoWriteForKnownStem /\ NoTwoRowsOfOneName

\* the row number below the rows of the sheet, 4 at least
FirstFreeRow == IF Len(SheetRows) + 1 > 4 THEN Len(SheetRows) + 1 ELSE 4
AddedBefore(i) == Cardinality({j \in RowsAdded : j < i})

\* C28: every write goes to the first free row plus the number of rows added before it, so
\* the rows added are consecutive from max(4, rows of the sheet + 1), one per added file
\* in processing order; a file that is skipped or fails, or whose write fails, takes no
\* row number; no write goes to a schema row or to a row the sheet had.
C28_AddedRowsAreConsecutive ==
  /\ \A i \in Patches :
       /\ requests_sent[i].row = FirstFreeRow + AddedBefore(i)
       /\ requests_sent[i].row >= 4
       /\ requests_sent[i].row > Len(SheetRows)
       /\ \A j \in Patches : j < i => requests_sent[j].file < requests_sent[i].file
  /\ successful_syncs = Cardinality(RowsAdded)
  /\ pc \in {"loop", "returned"} => next_row_number = FirstFreeRow + Cardinality(RowsAdded)

\* a run over a sheet with data rows in which a write failed and the next file's row went
\* to the same row number
C28_Witness ==
  /\ pc = "returned"
  /\ Len(SheetRows) > 3
  /\ \E i, j \in Patches :
       /\ i < j
       /\ ~requests_sent[i].ok /\ requests_sent[j].ok
       /\ requests_sent[i].row = requests_sent[j].row
  /\ skipped_files = 0

SessionCreated == \E i \in DOMAIN requests_sent :
                    requests_sent[i].op = "createSession" /\ requests_sent[i].ok
Closes == {i \in DOMAIN requests_sent : requests_sent[i].op = "closeSession"}
SyncLeft == pc \in {"returned", "raised"}

\* C29: once a workbook session was created, the run leaves process_json_files, by return
\* or by an exception, with exactly one close of the session, issued last, whatever failed
\* while the sheet was read or rows were added; a failed close raises nothing, so the run
\* raises exactly when something before the close had raised; when the session could not be
\* created no close is issued.
C29_SessionClosedExactlyOnce ==
  /\ ~SyncLeft => Closes = {}
  /\ SyncLeft /\ SessionCreated => Closes = {Len(requests_sent)}
  /\ ~SessionCreated => Closes = {}
  /\ SyncLeft /\ ~SessionCreated => pc = "raised"
  /\ pc = "returned" => IsNone(error)
  /\ pc = "raised" => ~IsNone(error)

\* the read of the sheet failed after the session was created, and the close failed too
C29_Witness ==
  /\ pc = "raised"
  /\ SessionCreated
  /\ IsNone(worksheet_data)
  /\ Closes = {Len(requests_sent)}
  /\ ~requests_sent[Len(requests_sent)].ok

IsFilenameTemplateField(field) == IsFilenameField(field.key)
\* the filename fields of the schema, in schema order
FilenameFieldsOf(fields) == SelectSeq(fields, IsFilenameTemplateField)
\* the keys of a list without their repetitions, in order of first occurrence
RECURSIVE FirstOccurrences(_)
FirstOccurrences(keys) ==
  IF keys = <<>> THEN <<>>
  ELSE LET front == FirstOccurrences(SubSeq(keys, 1, Len(keys) - 1))
           last == keys[Len(keys)]
       IN IF \E i \in 1..Len(front) : front[i] = last THEN front ELSE Append(front, last)
LlmCalled == CallsOf("generate_completion") > 0
\* line 247 is passed without an exception
PastAnalysis == pc \in {"reconcile", "add_filename_fields", "save", "done"}
HasNonFilenameField == NonFilenameKeys(template.fields) # <<>>
\* the entries before the filename entries, and the filename entries
LlmDerived == SubSeq(extracted_fields, 1, Len(LlmFields))
FilenameDerived == SubSeq(extracted_fields, Len(LlmFields) + 1, Len(extracted_fields))
\* the LLM is called exactly for a schema with a non-filename field, and the list is the
\* entries of the returned fields, in their order, then the filename entries
CalledIffAndLlmFirst(filename_keys) ==
  /\ LlmCalled => HasNonFilenameField
  /\ PastAnalysis /\ HasNonFilenameField => LlmCalled /\ CallsOf("generate_completion") = 1
  /\ PastAnalysis /\ ~HasNonFilenameField => ~LlmCalled /\ IsNone(messages)
  /\ FinalList =>
       /\ Len(extracted_fields) >= Len(LlmFields)
       /\ KeysOf(LlmDerived) = KeysOf(LlmFields)
       /\ KeysOf(FilenameDerived) = filename_keys
       /\ \A i \in 1..Len(extracted_fields) :
            i > Len(LlmFields) =>
              extracted_fields[i] = ExtractedField(extracted_fields[i].key, Stem(input_pdf_path), NoneV, NoneV)

\* C30 as claimed: process_pdf calls the LLM analysis if and only if the schema has a
\* non-filename field; when every schema field is a filename field no call is made and
\* the final list is the filename fields in schema order; in every run the entries
\* derived from the LLM, in response order, precede the filename entries.
C30_ListIsLlmEntriesThenSchemaFilenameFields ==
  CalledIffAndLlmFirst(KeysOf(FilenameFieldsOf(template.fields)))

\* C30 as amended: the same, the filename entries being one per distinct filename-field
\* key of the schema, in the order in which the keys first occur in it.
C30_ListIsLlmEntriesThenFilenameKeys ==
  CalledIffAndLlmFirst(FirstOccurrences(KeysOf(FilenameFieldsOf(template.fields))))

\* a run over a schema whose two columns bear the same filename header: no call was made
\* and the list holds the one entry
C30_Witness ==
  /\ pc = "done"
  /\ ~HasNonFilenameField /\ ~LlmCalled
  /\ Len(template.fields) = 2
  /\ KeysOf(extracted_fields) = <<KeyFileName>>

====
